---- MODULE Spec2Model ----
(***************************************************************************)
(* Model of the WIT extension: gaze-contingent word highlighter, colour    *)
(* coding, gaze socket and webcam tracker:                                 *)
(*   extension/src/content/eye-tracker.ts   (cursor position source)       *)
(*   extension/src/content/gaze-display.ts  (word index + focus renderer)  *)
(*   extension/src/content/index.ts         (Director Mode, panel messages)*)
(*   extension/src/content/colorizer.ts     (colour coding of the page)    *)
(*   extension/src/lib/api.ts               (GazeWebSocket)                 *)
(*   backend/static/tracker.js              (webcam tracker page)           *)
(* Each specification below drives one component through its exported     *)
(* functions and through the browser events it listens to.                 *)
(***************************************************************************)
EXTENDS Integers, Sequences, FiniteSets, TLC

\* ------------------------------------------------------------------------
\* Bounds of the model
\* ------------------------------------------------------------------------
MaxHandlers == 2     \* closures the model can tell apart (eye-tracker.ts)
MaxEmit == 3         \* gaze callback invocations that are counted
MaxStarts == 2       \* listener registrations that are counted
MaxTextLen == 3      \* characters of a text node of the page
MaxElems == 4        \* span elements alive at the same time
MaxRafIds == 2       \* animation-frame callbacks the model can tell apart
MaxSamples == 2      \* samples since the last repaint are counted up to this
MaxStatus == 3       \* TRACKING_STATUS messages the panel's inbox holds
MaxNodes == 2        \* text nodes of the page the colorizer sees
MaxBatch == 1        \* texts of one colorizeBatch request
MaxPanelMsgs == 3    \* colour messages the panel sends
MaxSockets == 3      \* WebSocket objects one GazeWebSocket creates
MaxCommands == 3     \* START and STOP messages the tracker page handles

\* Pointer / gaze coordinates the environment can deliver (clientX, clientY)
Points == { <<120, 100>>, <<400, 310>> }
\* samples a frame is computed for when applyFrame is exercised on its own
FramePoints ==
  Points \cup { <<125, 100>>, <<145, 100>>, <<175, 100>>, <<192, 100>>, <<270, 100>>, <<400, 50>> }
NoPoint == <<-1, -1>>

VARIABLES
  \* eye-tracker.ts module state
  gazeCallback,      \* "null" or "cb": the callback given to initCursorTracker
  mouseMoveHandler,  \* 0 (null) or the id of the closure made by startTracking
  isTracking,        \* BOOLEAN
  \* browser state seen by eye-tracker.ts
  mouseListeners,    \* ids of the closures registered for "mousemove" on window
  \* observation of the tracker's output
  emitted,           \* gaze callback invocations so far (counted up to MaxEmit)
  lastCalls,         \* callback invocations caused by the latest mousemove event
  lastGaze,          \* arguments of the latest callback invocation
  tOp,               \* name of the latest tracker step
  tAgain,            \* the latest step repeated the step before it
  starts             \* listener registrations so far (counted up to MaxStarts)

trackerVars == << gazeCallback, mouseMoveHandler, isTracking, mouseListeners,
                  emitted, lastCalls, lastGaze, tOp, tAgain, starts >>

VARIABLES
  \* gaze-display.ts module state (gaze-display.ts:32-49, 446)
  intensityMult,     \* multiplier in tenths (5, 10, 15), or NotANumber
  focusDot,          \* [exists, opacity, pos]
  cursorStyleEl,     \* [exists, attached]
  isActive,
  animFrame,         \* 0 (null) or the id returned by requestAnimationFrame
  wordCache,         \* sequence of [el, cx, cy]
  cacheValid,
  scrollHandler,     \* BOOLEAN: non-null
  resizeObserver,    \* BOOLEAN: non-null
  highlightedWords,  \* set of element ids
  primaryWord,       \* 0 (null) or an element id
  dimOverlay,        \* [exists, pos, radius, mult]
  \* browser state seen by gaze-display.ts
  doc,               \* the page: sequence of blocks [hidden, kids]
  elStyle,           \* inline style of every span element: [bg, shadow, color]
  scrollY,           \* scroll offset of the viewport
  rafQueue,          \* pending animation-frame callbacks: sequence of [id, p]
  bodyDots,          \* #wit-focus-dot elements attached to body
  headStyles,        \* #wit-cursor-hide elements attached to head
  scrollListeners,   \* scroll/resize listener pairs registered on window
  observers,         \* ResizeObservers observing body
  \* observation of the renderer
  doc0,              \* the page as it was before the extension touched it
  style0,            \* inline styles before the renderer's first mutation
  gOp,               \* name of the latest renderer step
  samples,           \* updateGaze calls accepted since the last repaint
  lastSample,        \* arguments of the latest accepted updateGaze call
  passes,            \* applyFrame executions of the latest repaint
  framePoint,        \* sample used by the latest applyFrame
  lastBranch,        \* discovery branch taken by the latest rebuildWordCache
  consumed,          \* samples that had arrived for the latest repaint
  cleared,           \* elements whose highlight the latest stop or destroy cleared
  gAgain             \* the latest step repeated the step before it

moduleVars == << intensityMult, focusDot, cursorStyleEl, isActive, animFrame,
                 wordCache, cacheValid, scrollHandler, resizeObserver,
                 highlightedWords, primaryWord, dimOverlay >>
browserVars == << doc, elStyle, scrollY, rafQueue, bodyDots, headStyles,
                  scrollListeners, observers >>
ghostVars == << doc0, style0, gOp, samples, lastSample, passes, framePoint,
               lastBranch, consumed, cleared, gAgain >>
gazeVars == << moduleVars, browserVars, ghostVars >>

VARIABLES
  \* index.ts module state and the panel it talks to
  directorSettings,  \* [enabled, crowdingIntensity]
  panelInbox         \* TRACKING_STATUS messages posted to the panel, in order

indexVars == << directorSettings, panelInbox >>

VARIABLES
  \* colorizer.ts and the colour-coding part of index.ts
  colorSettings,   \* [enabled, scheme]; scheme stands for the three arguments
  body,            \* the text-node slots of the page, in document order
  coloredNodes,    \* positions whose wrapper has a record, in push order
  isColorizing,    \* the guard of colorizeDocument
  running,         \* colorizeDocument calls awaiting colorizeBatch
  timeouts,        \* pending setTimeout callbacks, in the order they were set
  isProcessing,    \* the panel's processing flag (App.tsx)
  panelMsgs,       \* colour messages of the panel handled so far
  offHandled,      \* the last TOGGLE_COLOR_CODING had enabled = false
  sinceLast,       \* milliseconds since the last recolorize call
  firedSince,      \* colorizeDocument calls the debounce made since then
  lastArgs,        \* the arguments of the last recolorize call
  lastCall,        \* the arguments of the debounce's last colorizeDocument call
  restored,        \* records the last removeColorization put back
  body00,          \* body when the page was loaded
  cOp              \* the colour step taken last

colorizerVars == << colorSettings, body, coloredNodes, isColorizing, running, timeouts,
                    isProcessing, panelMsgs, offHandled, sinceLast, firedSince,
                    lastArgs, lastCall, restored, body00, cOp >>

VARIABLES
  \* GazeWebSocket (api.ts)
  ws,                     \* the socket this.ws refers to, 0 for null
  isIntentionallyClosed,
  reconnectTimers,        \* pending reconnect timeouts: [left, handle]
  sockets,                \* sockets created and not yet closed: [id, state]
  created,                \* sockets created so far
  wsOp                    \* the socket step taken last

socketVars == << ws, isIntentionallyClosed, reconnectTimers, sockets, created, wsOp >>

VARIABLES
  \* the webcam tracker page (tracker.js)
  isRunning,
  gazeInterval,     \* whether the handle refers to a running interval
  intervals,        \* setInterval timers running
  beginPending,     \* webgazer.begin() promises not yet settled
  webLastGaze,      \* lastGaze of tracker.js: "null", "fresh" or "stale"
  webgazerOn,       \* webgazer has begun and was not ended
  wantGaze,         \* a START was handled and no STOP since
  commands,         \* START and STOP messages handled so far
  camOp             \* the tracker step taken last

webcamVars == << isRunning, gazeInterval, intervals, beginPending, webLastGaze,
                 webgazerOn, wantGaze, commands, camOp >>

extVars == << colorizerVars, socketVars, webcamVars >>

vars == << trackerVars, gazeVars, indexVars, extVars >>

\* ------------------------------------------------------------------------
\* eye-tracker.ts
\* ------------------------------------------------------------------------
HandlerIds == 1..MaxHandlers

\* A closure not referenced by the module nor by the window: every evaluation
\* of the arrow function at eye-tracker.ts:33 yields a new object.
FreshHandler == CHOOSE h \in HandlerIds :
                  /\ h \notin mouseListeners /\ h # mouseMoveHandler
                  /\ \A g \in HandlerIds :
                       (g \notin mouseListeners /\ g # mouseMoveHandler) => h <= g

TrackerInit ==
  /\ gazeCallback = "null"
  /\ mouseMoveHandler = 0
  /\ isTracking = FALSE
  /\ mouseListeners = {}
  /\ emitted = 0
  /\ lastCalls = 0
  /\ lastGaze = NoPoint
  /\ tOp = "init"
  /\ tAgain = FALSE
  /\ starts = 0

initCursorTracker ==
  /\ gazeCallback' = "cb"
  /\ tOp' = "initCursorTracker"
  /\ tAgain' = (tOp = "initCursorTracker")
  /\ UNCHANGED gazeVars
  /\ UNCHANGED indexVars
  /\ UNCHANGED extVars
  /\ UNCHANGED << mouseMoveHandler, isTracking, mouseListeners, emitted, lastCalls,
                  lastGaze, starts >>

\* the guard of startTracking (eye-tracker.ts:30)
StartTrackingReturnsEarlyMutant == FALSE
StartTrackingReturnsEarly == isTracking

startTracking ==
  /\ \E h \in HandlerIds : h \notin mouseListeners /\ h # mouseMoveHandler
  /\ tOp' = "startTracking"
  /\ tAgain' = (tOp = "startTracking")
  /\ UNCHANGED gazeVars
  /\ UNCHANGED indexVars
  /\ UNCHANGED extVars
  /\ IF StartTrackingReturnsEarly
       THEN UNCHANGED << mouseMoveHandler, isTracking, mouseListeners, starts >>
       ELSE /\ isTracking' = TRUE
            /\ mouseMoveHandler' = FreshHandler
            /\ mouseListeners' = mouseListeners \cup {FreshHandler}
            /\ starts' = IF starts < MaxStarts THEN starts + 1 ELSE starts
  /\ UNCHANGED << gazeCallback, emitted, lastCalls, lastGaze >>

\* the listeners left on window by stopTracking's removeEventListener
\* (eye-tracker.ts:47-50)
ListenersAfterStopMutant == mouseListeners
ListenersAfterStop ==
  IF mouseMoveHandler # 0 THEN mouseListeners \ {mouseMoveHandler} ELSE mouseListeners

StopTrackingEffect ==
  IF ~isTracking
    THEN UNCHANGED << mouseMoveHandler, isTracking, mouseListeners >>
    ELSE /\ isTracking' = FALSE
         /\ mouseListeners' = ListenersAfterStop
         /\ mouseMoveHandler' = 0

stopTracking ==
  /\ tOp' = "stopTracking"
  /\ tAgain' = (tOp = "stopTracking")
  /\ UNCHANGED gazeVars
  /\ UNCHANGED indexVars
  /\ UNCHANGED extVars
  /\ StopTrackingEffect
  /\ UNCHANGED << gazeCallback, emitted, lastCalls, lastGaze, starts >>

destroyCursorTracker ==
  /\ tOp' = "destroyCursorTracker"
  /\ tAgain' = (tOp = "destroyCursorTracker")
  /\ UNCHANGED gazeVars
  /\ UNCHANGED indexVars
  /\ UNCHANGED extVars
  /\ StopTrackingEffect
  /\ gazeCallback' = "null"
  /\ UNCHANGED << emitted, lastCalls, lastGaze, starts >>

\* A mousemove event on window: every registered closure runs once and calls
\* gazeCallback?.(e.clientX, e.clientY, Date.now())  (eye-tracker.ts:33-35)
MouseMove ==
  \E p \in Points :
    LET calls == IF gazeCallback = "cb" THEN Cardinality(mouseListeners) ELSE 0 IN
    /\ emitted + calls <= MaxEmit
    /\ tOp' = "mousemove"
    /\ tAgain' = (tOp = "mousemove")
    /\ UNCHANGED gazeVars
    /\ UNCHANGED indexVars
    /\ UNCHANGED extVars
    /\ lastCalls' = calls
    /\ emitted' = emitted + calls
    /\ lastGaze' = IF calls > 0 THEN p ELSE lastGaze
    /\ UNCHANGED << gazeCallback, mouseMoveHandler, isTracking, mouseListeners, starts >>

TrackerNext ==
  \/ initCursorTracker
  \/ startTracking
  \/ stopTracking
  \/ destroyCursorTracker
  \/ MouseMove

\* ------------------------------------------------------------------------
\* The page: blocks (elements holding text) with text nodes and span elements
\* ------------------------------------------------------------------------
Elems == 1..MaxElems
Chars == {"a", "b", " "}

\* in: the span.wit-colored elements [el, t] that a span.wit-colored-wrapper
\* inside the node holds (for a wrapper span: that it holds itself)
TextNode(t) == [k |-> "text", t |-> t, cls |-> "", el |-> 0, in |-> << >>]
SpanNode(cls, e, t) == [k |-> "span", t |-> t, cls |-> cls, el |-> e, in |-> << >>]
Block(hidden, kids) == [hidden |-> hidden, kids |-> kids]

NoColor == << >>
NoBg == [rgb |-> << >>, a |-> 0]
Pristine == [bg |-> NoBg, shadow |-> NoBg, color |-> NoColor]
\* el.style of an element that is no HTMLElement (a span of another namespace
\* matches "span.wit-colored" as well): there is no style object, and reading
\* or writing a property of it throws a TypeError
NoInlineStyle == [bg |-> NoBg, shadow |-> NoBg, color |-> << -1 >>]

\* /\s/ on one character
IsSpace(c) == c = " "
\* !text.trim()
Blank(t) == \A i \in 1..Len(t) : IsSpace(t[i])

\* text.match(/\S+|\s+/g): the maximal runs of whitespace and of
\* non-whitespace, in order; << >> stands for null (no match)
RECURSIVE Runs(_)
Runs(t) ==
  IF t = << >> THEN << >>
  ELSE LET sp == IsSpace(t[1])
           n == CHOOSE m \in 1..Len(t) :
                  /\ \A i \in 1..m : IsSpace(t[i]) = sp
                  /\ (m = Len(t) \/ IsSpace(t[m + 1]) # sp)
       IN << SubSeq(t, 1, n) >> \o Runs(SubSeq(t, n + 1, Len(t)))

\* the element of a one-element set: Only({ f(x) : x \in {e} }) is f(e), with e
\* evaluated once
Only(S) == CHOOSE x \in S : TRUE

RECURSIVE Flatten(_)
Flatten(ss) == IF ss = << >> THEN << >> ELSE Head(ss) \o Flatten(Tail(ss))

\* the elements of s at the indices in keep, in order
RECURSIVE Pick(_, _, _)
Pick(s, keep, i) ==
  IF i > Len(s) THEN << >>
  ELSE (IF i \in keep THEN << s[i] >> ELSE << >>) \o Pick(s, keep, i + 1)

Range(s) == { s[i] : i \in 1..Len(s) }

RECURSIVE SortedSeq(_)
SortedSeq(S) ==
  IF S = {} THEN << >>
  ELSE LET m == CHOOSE x \in S : \A y \in S : x <= y
       IN << m >> \o SortedSeq(S \ {m})

\* word boxes a node takes in its row: one per span, and one per element of a
\* wrapper that stands in the block itself
Boxes(n) ==
  IF n.k # "span" THEN 0
  ELSE IF n.cls = "wit-colored-wrapper" THEN Len(n.in)
  ELSE 1

RECURSIVE BoxesUpTo(_, _)
BoxesUpTo(kids, i) == IF i = 0 THEN 0 ELSE BoxesUpTo(kids, i - 1) + Boxes(kids[i])

\* ordinal of the (last) word box of kids[i] among the word boxes of its block
Ord(kids, i) == BoxesUpTo(kids, i)

\* the spans of class cls at or inside kids[i]: [el, p, k] in document order
SpansOfKid(kids, p, i, cls) ==
  LET n == kids[i]
      self == IF n.k = "span" /\ n.cls = cls
                THEN << [el |-> n.el, p |-> p, k |-> Ord(kids, i)] >>
                ELSE << >>
      inner == IF cls # "wit-colored" THEN << >>
               ELSE [m \in 1..Len(n.in) |->
                       [el |-> n.in[m].el, p |-> p,
                        k |-> IF n.cls = "wit-colored-wrapper"
                                THEN BoxesUpTo(kids, i - 1) + m
                                ELSE Ord(kids, i)]]
  IN self \o inner

\* document.querySelectorAll("span.<cls>"): [el, p, k] in document order
SpansOfBlock(d, p, cls) ==
  Flatten([i \in 1..Len(d[p].kids) |-> SpansOfKid(d[p].kids, p, i, cls)])

querySelectorAll(d, cls) == Flatten([p \in 1..Len(d) |-> SpansOfBlock(d, p, cls)])

\* the span elements of the document
DocEls(d) ==
  UNION { { d[p].kids[i].el : i \in 1..Len(d[p].kids) }
            \cup UNION { { d[p].kids[i].in[m].el : m \in 1..Len(d[p].kids[i].in) } :
                           i \in 1..Len(d[p].kids) } :
          p \in 1..Len(d) } \ {0}

\* Node.textContent of a block
TextContent(kids) == Flatten([i \in 1..Len(kids) |-> kids[i].t])

\* Node.normalize(): empty text nodes are removed, adjacent text nodes merged
RECURSIVE Normalize(_)
Normalize(kids) ==
  IF kids = << >> THEN << >>
  ELSE Only({ IF n.k # "text" THEN << n >> \o rest
                ELSE IF n.t = << >> THEN rest
                ELSE IF rest # << >> /\ Head(rest).k = "text"
                  THEN << TextNode(n.t \o Head(rest).t) >> \o Tail(rest)
                  ELSE << n >> \o rest :
              n \in { Head(kids) }, rest \in { Normalize(Tail(kids)) } })

\* ------------------------------------------------------------------------
\* Layout of the page (getBoundingClientRect, window.innerHeight)
\* Block p is a row of 40x20 px word boxes; a hidden block (display: none)
\* and everything in it has an empty rectangle.
\* ------------------------------------------------------------------------
innerHeight == 300 + 300

RowRect(d, sy, p) ==
  IF d[p].hidden THEN [width |-> 0, height |-> 0, left |-> 0, top |-> 0, bottom |-> 0]
  ELSE [width |-> 400, height |-> 20, left |-> 300 * (p - 1) + 80,
        top |-> 300 * p - 210 - sy, bottom |-> 300 * p - 190 - sy]

getBoundingClientRect(d, sy, p, k) ==
  IF d[p].hidden THEN [width |-> 0, height |-> 0, left |-> 0, top |-> 0, bottom |-> 0]
  ELSE [width |-> 40, height |-> 20, left |-> 300 * (p - 1) + 50 * k + 30,
        top |-> 300 * p - 210 - sy, bottom |-> 300 * p - 190 - sy]

\* the filter of gaze-display.ts:147-152, 169-174, 248-253
RectAcceptedMutant(r) == r.bottom >= -200 /\ r.top <= innerHeight + 200
RectAccepted(r) ==
  /\ r.width > 0
  /\ r.height > 0
  /\ r.bottom >= -200
  /\ r.top <= innerHeight + 200

\* the cache entry pushed for a span (gaze-display.ts:153-157)
Region(el, r) == [el |-> el, cx |-> r.left + r.width \div 2, cy |-> r.top + r.height \div 2]

\* the rectangle has an area (gaze-display.ts:225)
NonEmptyRect(r) == r.width > 0 /\ r.height > 0

\* the regions pushed for the spans whose rectangle passes the filter: the
\* full one (viewport) or the area test alone
RegionsOf(d, sy, spans, viewport) ==
  LET rs == [i \in 1..Len(spans) |->
               Region(spans[i].el, getBoundingClientRect(d, sy, spans[i].p, spans[i].k))]
  IN Pick(rs, { i \in 1..Len(spans) :
                  IF viewport
                    THEN RectAccepted(getBoundingClientRect(d, sy, spans[i].p, spans[i].k))
                    ELSE NonEmptyRect(getBoundingClientRect(d, sy, spans[i].p, spans[i].k)) }, 1)

\* ------------------------------------------------------------------------
\* gaze-display.ts: word discovery
\* ------------------------------------------------------------------------
\* the fragment built for a text node of several runs (gaze-display.ts:231-241);
\* free: the ids the new span elements get, in order
\* /^\s+$/.test(part) (gaze-display.ts:233)
PartIsWhitespaceMutant(part) == TRUE
PartIsWhitespace(part) == part # << >> /\ Blank(part)
RECURSIVE WrapParts(_, _)
WrapParts(parts, free) ==
  IF parts = << >> THEN [kids |-> << >>, free |-> free]
  ELSE LET part == Head(parts)
       IN IF PartIsWhitespace(part)
            THEN LET r == WrapParts(Tail(parts), free)
                 IN [kids |-> << TextNode(part) >> \o r.kids, free |-> r.free]
            ELSE LET r == WrapParts(Tail(parts), Tail(free))
                 IN [kids |-> << SpanNode("wit-word", Head(free), part) >> \o r.kids,
                     free |-> r.free]

\* the loop over the accepted text nodes of one block (gaze-display.ts:215-243);
\* singles: the spans made for text nodes of a single run, which the loop
\* pushes into the cache itself
RECURSIVE WrapKids(_, _)
WrapKids(kids, free) ==
  IF kids = << >> THEN [kids |-> << >>, free |-> free, singles |-> << >>]
  ELSE LET n == Head(kids)
       IN IF n.k # "text" \/ Blank(n.t)
            THEN LET r == WrapKids(Tail(kids), free)
                 IN [r EXCEPT !.kids = << n >> \o @]
          ELSE IF Len(Runs(n.t)) <= 1
            THEN LET r == WrapKids(Tail(kids), Tail(free))
                 IN [kids |-> << SpanNode("wit-word", Head(free), n.t) >> \o r.kids,
                     free |-> r.free,
                     singles |-> << Head(free) >> \o r.singles]
          ELSE LET f == WrapParts(Runs(n.t), free)
                   r == WrapKids(Tail(kids), f.free)
               IN [kids |-> f.kids \o r.kids, free |-> r.free, singles |-> r.singles]

\* acceptNode of the tree walker, the part that looks at the parent's rectangle
\* (gaze-display.ts:203-207)
BlockAccepted(d, sy, p) ==
  LET rect == RowRect(d, sy, p)
  IN /\ ~(rect.width = 0 \/ rect.height = 0)
     /\ ~(rect.bottom < -200 \/ rect.top > innerHeight + 200)

RECURSIVE WrapDoc(_, _, _, _)
WrapDoc(d, sy, p, free) ==
  IF p > Len(d) THEN [doc |-> << >>, singles |-> << >>]
  ELSE LET w == IF BlockAccepted(d, sy, p)
                  THEN WrapKids(d[p].kids, free)
                  ELSE [kids |-> d[p].kids, free |-> free, singles |-> << >>]
           r == WrapDoc(d, sy, p + 1, w.free)
       IN [doc |-> << [d[p] EXCEPT !.kids = w.kids] >> \o r.doc,
           singles |-> w.singles \o r.singles]

\* the regions pushed inside the wrapping loop (gaze-display.ts:224-227)
SingleWordPushes(d, sy, singles) ==
  LET allWords == querySelectorAll(d, "wit-word")
      mine == Pick(allWords, { i \in 1..Len(allWords) : allWords[i].el \in Range(singles) }, 1)
  IN RegionsOf(d, sy, mine, FALSE)

\* the branch for the spans of an earlier wrap pass returns when it has pushed
\* a region (gaze-display.ts:166, 183-185)
ReuseExistingMutant(existing, reused) == Len(existing) > 0
ReuseExisting(existing, reused) == Len(existing) > 0 /\ Len(reused) > 0

\* rebuildWordCache (gaze-display.ts:139-258) on page d at scroll offset sy;
\* used: the element ids that are still referenced.  cacheValid is TRUE on
\* every return path.
rebuildWordCache(d, sy, used) ==
  LET colored == querySelectorAll(d, "wit-colored")
      existing == querySelectorAll(d, "wit-word")
      reused == RegionsOf(d, sy, existing, TRUE)
  IN IF Len(colored) > 0
       THEN [doc |-> d, wordCache |-> RegionsOf(d, sy, colored, TRUE), branch |-> "colored"]
     ELSE IF ReuseExisting(existing, reused)
       THEN [doc |-> d, wordCache |-> reused, branch |-> "existing"]
     ELSE Only({ [doc |-> w.doc,
                  wordCache |-> SingleWordPushes(w.doc, sy, w.singles)
                                \o RegionsOf(w.doc, sy, querySelectorAll(w.doc, "wit-word"),
                                             TRUE),
                  branch |-> "wrap"] :
                 w \in { WrapDoc(d, sy, 1, SortedSeq(Elems \ used)) } })

\* the replacement loop and normalize() of destroyGazeDisplay
\* (gaze-display.ts:347-353) on one block
\* document.createTextNode(span.textContent || "") (gaze-display.ts:350)
UnwrapTextMutant(n) == << >>
UnwrapText(n) == n.t
UnwrapKids(kids) ==
  [i \in 1..Len(kids) |->
     IF kids[i].k = "span" /\ kids[i].cls = "wit-word"
       THEN TextNode(UnwrapText(kids[i]))
       ELSE kids[i]]

UnwrapDoc(d) == [p \in 1..Len(d) |-> [d[p] EXCEPT !.kids = Normalize(UnwrapKids(@))]]

\* ------------------------------------------------------------------------
\* gaze-display.ts: colour helpers
\* ------------------------------------------------------------------------
FOCUS_RADIUS == 90
TRANSITION_RADIUS == 180
\* rgba colours: [rgb, a] with the alpha in thousandths
HIGHLIGHT_BG == [rgb |-> << 255, 249, 196 >>, a |-> 450]
HIGHLIGHT_BG_STRONG == [rgb |-> << 255, 240, 140 >>, a |-> 650]
UNDERLINE_COLOR == [rgb |-> << 74, 111, 165 >>, a |-> 500]

\* text colours an element of the page can carry (style.color, resolved)
Dark == << 20, 20, 20 >>
Light == << 240, 240, 240 >>
Mid == << 150, 100, 100 >>

\* WCAG relative luminance in thousandths, for the colours above
luminance(rgb) ==
  CASE rgb = Dark -> 7
    [] rgb = Light -> 871
    [] rgb = Mid -> 165
    [] OTHER -> 0

\* a colour of another colour space (color(display-p3 1 0 0), oklch(...)):
\* getComputedStyle serialises it in its own notation, not as rgb()
WideGamut == << 1, 0, 0, 0 >>

\* parseColor (gaze-display.ts:56-67): the three numbers of the resolved
\* "rgb(r, g, b)", or null (written NoColor) when the resolved colour is
\* not in that notation
parseColor(css) == IF Len(css) = 3 THEN css ELSE NoColor

contrastingHighlightMutant(textColor, strong) ==
  IF textColor = NoColor \/ parseColor(textColor) = NoColor
    THEN [bg |-> IF strong THEN HIGHLIGHT_BG_STRONG ELSE HIGHLIGHT_BG,
          underline |-> UNDERLINE_COLOR]
  ELSE LET lum == luminance(parseColor(textColor))
           alpha == IF strong THEN 280 ELSE 180
       IN IF lum > 150
            THEN [bg |-> [rgb |-> << 30, 40, 70 >>, a |-> alpha],
                  underline |-> [rgb |-> << 30, 40, 70 >>, a |-> 450]]
          ELSE [bg |-> [rgb |-> << 255, 240, 140 >>, a |-> alpha + 150],
                underline |-> [rgb |-> << 74, 111, 165 >>, a |-> 500]]
contrastingHighlight(textColor, strong) ==
  IF textColor = NoColor \/ parseColor(textColor) = NoColor
    THEN [bg |-> IF strong THEN HIGHLIGHT_BG_STRONG ELSE HIGHLIGHT_BG,
          underline |-> UNDERLINE_COLOR]
  ELSE LET lum == luminance(parseColor(textColor))
           alpha == IF strong THEN 280 ELSE 180
       IN IF lum > 400
            THEN [bg |-> [rgb |-> << 30, 40, 70 >>, a |-> alpha],
                  underline |-> [rgb |-> << 30, 40, 70 >>, a |-> 450]]
          ELSE IF lum > 150
            THEN [bg |-> [rgb |-> << 255, 249, 196 >>, a |-> alpha + 100],
                  underline |-> [rgb |-> << 120, 100, 30 >>, a |-> 400]]
          ELSE [bg |-> [rgb |-> << 255, 240, 140 >>, a |-> alpha + 150],
                underline |-> [rgb |-> << 74, 111, 165 >>, a |-> 500]]

\* ------------------------------------------------------------------------
\* gaze-display.ts: applyFrame
\* ------------------------------------------------------------------------
\* focusR and transR for a multiplier given in tenths (gaze-display.ts:376-377)
\* NaN: the product of a number and a value that is not one
NotANumber == -1
FocusRMutant(mult) == (FOCUS_RADIUS * mult) \div 40
FocusR(mult) == IF mult = NotANumber THEN NotANumber ELSE (FOCUS_RADIUS * mult) \div 10
TransRMutant(mult) == TRANSITION_RADIUS * mult
TransR(mult) == IF mult = NotANumber THEN NotANumber ELSE (TRANSITION_RADIUS * mult) \div 10

\* dx * dx + dy * dy (gaze-display.ts:386-388); the zones compare the
\* distance itself, which orders as its square does
Dist2(w, p) == (w.cx - p[1]) * (w.cx - p[1]) + (w.cy - p[2]) * (w.cy - p[2])

\* the branch taken for one cache entry (gaze-display.ts:390-398)
ZoneMutant(w, p, mult) ==
  IF Dist2(w, p) <= FocusR(mult) * FocusR(mult) THEN "focus"
  ELSE IF Dist2(w, p) <= 4 * TransR(mult) * TransR(mult) THEN "transition"
  ELSE "none"
Zone(w, p, mult) ==
  IF FocusR(mult) = NotANumber THEN "none"
  ELSE IF Dist2(w, p) <= FocusR(mult) * FocusR(mult) THEN "focus"
  ELSE IF Dist2(w, p) <= TransR(mult) * TransR(mult) THEN "transition"
  ELSE "none"

toHighlight(cache, p, mult) ==
  Pick(cache, { i \in 1..Len(cache) : Zone(cache[i], p, mult) = "focus" }, 1)
toTransition(cache, p, mult) ==
  Pick(cache, { i \in 1..Len(cache) : Zone(cache[i], p, mult) = "transition" }, 1)

\* dist < closestDist, closestDist starting at Infinity (written -1)
\* (gaze-display.ts:379, 392)
CloserMutant(d2, closestDist2) == closestDist2 < 0 \/ d2 <= closestDist2
Closer(d2, closestDist2) == closestDist2 < 0 \/ d2 < closestDist2

\* closestWord after the loop of gaze-display.ts:385-399 (0 stands for null)
RECURSIVE ClosestLoop(_, _, _, _, _, _)
ClosestLoop(cache, p, mult, i, closestDist2, closestWord) ==
  IF i > Len(cache) THEN closestWord
  ELSE IF Zone(cache[i], p, mult) = "focus" /\ Closer(Dist2(cache[i], p), closestDist2)
    THEN ClosestLoop(cache, p, mult, i + 1, Dist2(cache[i], p), cache[i].el)
    ELSE ClosestLoop(cache, p, mult, i + 1, closestDist2, closestWord)

closestWordOf(cache, p, mult) == ClosestLoop(cache, p, mult, 1, -1, 0)

\* floor of the square root
RECURSIVE ISqrtIn(_, _, _)
ISqrtIn(n, lo, hi) ==
  IF lo >= hi THEN lo
  ELSE Only({ IF mid * mid <= n THEN ISqrtIn(n, mid, hi) ELSE ISqrtIn(n, lo, mid - 1) :
              mid \in { (lo + hi + 1) \div 2 } })
ISqrt(n) == ISqrtIn(n, 0, 46340)

\* fadedAlpha.toFixed(3) in thousandths (gaze-display.ts:428-435), the
\* distance taken to a hundredth of a pixel
FadedAlphaMutant(baseAlpha, d2, mult) == baseAlpha
FadedAlpha(baseAlpha, d2, mult) ==
  LET dist == ISqrt(d2 * 10000)
      num == baseAlpha * (TransR(mult) * 100 - dist)
      den == (TransR(mult) - FocusR(mult)) * 100
  IN (2 * num + den) \div (2 * den)

\* step 4 and clearHighlights (gaze-display.ts:402-405, 477-480)
ClearedStyleMutant(st) == [st EXCEPT !.bg = NoBg]
ClearedStyleResetMutant(st) == Pristine
ClearedStyle(st) == [st EXCEPT !.bg = NoBg, !.shadow = NoBg]

ClearStylesMutant(style, hw) == style
ClearStyles(style, hw) ==
  [e \in Elems |-> IF e \in hw THEN ClearedStyle(style[e]) ELSE style[e]]

\* step 5 (gaze-display.ts:410-415)
FocusStyles(style, th) ==
  [e \in Elems |->
     IF e \in { th[i].el : i \in 1..Len(th) }
       THEN [style[e] EXCEPT !.bg = contrastingHighlight(style[e].color, FALSE).bg]
       ELSE style[e]]

\* step 6 (gaze-display.ts:418-424)
PrimaryStyle(style, cw) ==
  IF cw = 0 THEN style
  ELSE [style EXCEPT ![cw] =
          [@ EXCEPT !.bg = contrastingHighlight(style[cw].color, TRUE).bg,
                    !.shadow = contrastingHighlight(style[cw].color, TRUE).underline]]

\* step 7 (gaze-display.ts:427-438)
RECURSIVE TransitionStyles(_, _, _, _)
TransitionStyles(style, tt, p, mult) ==
  IF tt = << >> THEN style
  ELSE Only({ TransitionStyles(next, Tail(tt), p, mult) :
              next \in { LET w == Head(tt)
                             bg == contrastingHighlight(style[w.el].color, FALSE).bg
                             faded == [rgb |-> bg.rgb,
                                       a |-> FadedAlpha(bg.a, Dist2(w, p), mult)]
                         IN [style EXCEPT ![w.el].bg = faded] } })

NoDot == [exists |-> FALSE, opacity |-> "0", pos |-> NoPoint]
NoStyleEl == [exists |-> FALSE, attached |-> FALSE]
NoOverlay == [exists |-> FALSE, pos |-> NoPoint, radius |-> 0, mult |-> 0]

\* applyDimming (gaze-display.ts:448-474): the overlay is created on first use
\* and its gradient is a function of the sample, the radius and the multiplier;
\* a gradient written with NaN is no CSS value and the assignment is ignored
applyDimming(overlay, p, radius, mult) ==
  IF radius = NotANumber THEN [overlay EXCEPT !.exists = TRUE]
  ELSE [exists |-> TRUE, pos |-> p, radius |-> radius, mult |-> mult]

\* the state applyFrame reads and writes
FrameState ==
  [doc |-> doc, elStyle |-> elStyle, wordCache |-> wordCache,
   cacheValid |-> cacheValid, highlightedWords |-> highlightedWords,
   primaryWord |-> primaryWord, focusDot |-> focusDot, dimOverlay |-> dimOverlay,
   branch |-> "none"]

Used(s) == DocEls(s.doc) \cup s.highlightedWords \cup ({s.primaryWord} \ {0})

\* the entries of a loop of steps 5 and 7 that are styled before an access to
\* el.style throws (gaze-display.ts:411, 430): nothing catches the exception,
\* the loop and the rest of applyFrame are abandoned
StyledPrefix(entries, style) ==
  LET throwing == { i \in 1..Len(entries) : style[entries[i].el] = NoInlineStyle }
  IN IF throwing = {} THEN entries
     ELSE SubSeq(entries, 1, (CHOOSE i \in throwing : \A j \in throwing : i <= j) - 1)

\* applyFrame with steps 4 to 6 in another order: primary, focus, clearing
FrameResultMutant(s, rb, th, tt, cw, p, mult) ==
  [doc |-> rb.doc,
   elStyle |-> TransitionStyles(
                 ClearStyles(FocusStyles(PrimaryStyle(s.elStyle, cw), th), s.highlightedWords),
                 tt, p, mult),
   wordCache |-> rb.wordCache,
   cacheValid |-> TRUE,
   highlightedWords |-> { th[i].el : i \in 1..Len(th) } \cup { tt[i].el : i \in 1..Len(tt) },
   primaryWord |-> cw,
   focusDot |-> IF s.focusDot.exists THEN [s.focusDot EXCEPT !.pos = p] ELSE s.focusDot,
   dimOverlay |-> applyDimming(s.dimOverlay, p, TransR(mult), mult),
   branch |-> rb.branch]

\* applyFrame(gazeX, gazeY) (gaze-display.ts:365-442)
FrameResult(s, rb, th, tt, cw, p, mult) ==
  Only({ [doc |-> rb.doc,
          elStyle |-> TransitionStyles(
                        PrimaryStyle(FocusStyles(ClearStyles(s.elStyle, s.highlightedWords),
                                                 thDone),
                                     IF Len(thDone) < Len(th) THEN 0 ELSE cw),
                        ttDone, p, mult),
          wordCache |-> rb.wordCache,
          cacheValid |-> TRUE,
          highlightedWords |-> { thDone[i].el : i \in 1..Len(thDone) }
                                 \cup { ttDone[i].el : i \in 1..Len(ttDone) },
          primaryWord |-> IF Len(thDone) < Len(th) THEN 0 ELSE cw,
          focusDot |-> IF s.focusDot.exists THEN [s.focusDot EXCEPT !.pos = p] ELSE s.focusDot,
          dimOverlay |-> IF Len(thDone) + Len(ttDone) < Len(th) + Len(tt)
                           THEN s.dimOverlay
                           ELSE applyDimming(s.dimOverlay, p, TransR(mult), mult),
          branch |-> rb.branch] :
         thDone \in { StyledPrefix(th, s.elStyle) },
         ttDone \in { IF StyledPrefix(th, s.elStyle) # th THEN << >>
                      ELSE StyledPrefix(tt, s.elStyle) } })

\* if (!cacheValid) rebuildWordCache() (gaze-display.ts:372-373)
NeedsRebuildMutant(valid, cache) == ~valid \/ cache = << >>
NeedsRebuild(valid, cache) == ~valid

applyFrame(s, p, mult, sy) ==
  Only({ Only({ FrameResult(s, rb, th, tt, cw, p, mult) :
                th \in { toHighlight(rb.wordCache, p, mult) },
                tt \in { toTransition(rb.wordCache, p, mult) },
                cw \in { closestWordOf(rb.wordCache, p, mult) } }) :
         rb \in { IF NeedsRebuild(s.cacheValid, s.wordCache)
                    THEN rebuildWordCache(s.doc, sy, Used(s))
                    ELSE [doc |-> s.doc, wordCache |-> s.wordCache, branch |-> s.branch] } })

\* the callbacks of one repaint, run in the order they were requested
RECURSIVE RunFrames(_, _, _, _)
RunFrames(s, q, mult, sy) ==
  IF q = << >> THEN s
  ELSE Only({ RunFrames(s1, Tail(q), mult, sy) :
              s1 \in { applyFrame(s, Head(q).p, mult, sy) } })

\* ------------------------------------------------------------------------
\* gaze-display.ts: exported functions and the events the module listens to
\* ------------------------------------------------------------------------
SetFrameState(s) ==
  /\ doc' = s.doc
  /\ elStyle' = s.elStyle
  /\ wordCache' = s.wordCache
  /\ cacheValid' = s.cacheValid
  /\ highlightedWords' = s.highlightedWords
  /\ primaryWord' = s.primaryWord
  /\ focusDot' = s.focusDot
  /\ dimOverlay' = s.dimOverlay

RafIds == 1..MaxRafIds
RafFree(q, af) == { i \in RafIds : i # af /\ \A j \in 1..Len(q) : q[j].id # i }
\* cancelAnimationFrame(id)
Cancel(q, id) == Pick(q, { j \in 1..Len(q) : q[j].id # id }, 1)

\* initGazeDisplay (gaze-display.ts:266-301)
initGazeDisplay ==
  /\ gOp' = "initGazeDisplay"
  /\ gAgain' = (gOp = "initGazeDisplay")
  /\ UNCHANGED trackerVars
  /\ UNCHANGED indexVars
  /\ UNCHANGED extVars
  /\ focusDot' = [exists |-> TRUE, opacity |-> "0", pos |-> NoPoint]
  /\ bodyDots' = bodyDots + 1
  /\ cursorStyleEl' = [exists |-> TRUE, attached |-> FALSE]
  /\ scrollHandler' = TRUE
  /\ scrollListeners' = scrollListeners + 1
  /\ resizeObserver' = TRUE
  /\ observers' = observers + 1
  /\ passes' = 0 /\ framePoint' = NoPoint /\ consumed' = 0
  /\ cleared' = 0
  /\ UNCHANGED << intensityMult, isActive, animFrame, wordCache, cacheValid,
                  highlightedWords, primaryWord, dimOverlay, doc, elStyle, scrollY,
                  rafQueue, headStyles, doc0, style0, samples, lastSample, lastBranch >>

\* document.head.appendChild(cursorStyleEl) (gaze-display.ts:306): an element
\* that is already a child is moved, not duplicated
HeadAfterAppendMutant(n, el) == IF el.exists THEN n + 1 ELSE n
HeadAfterAppend(n, el) == IF el.exists /\ ~el.attached THEN n + 1 ELSE n

\* startGazeDisplay (gaze-display.ts:303-308)
startGazeDisplay ==
  /\ gOp' = "startGazeDisplay"
  /\ gAgain' = (gOp = "startGazeDisplay")
  /\ UNCHANGED trackerVars
  /\ UNCHANGED indexVars
  /\ UNCHANGED extVars
  /\ isActive' = TRUE
  /\ focusDot' = IF focusDot.exists THEN [focusDot EXCEPT !.opacity = "1"] ELSE focusDot
  /\ cursorStyleEl' = IF cursorStyleEl.exists
                        THEN [cursorStyleEl EXCEPT !.attached = TRUE]
                        ELSE cursorStyleEl
  /\ headStyles' = HeadAfterAppend(headStyles, cursorStyleEl)
  /\ cacheValid' = FALSE
  /\ passes' = 0 /\ framePoint' = NoPoint /\ consumed' = 0
  /\ cleared' = 0
  /\ UNCHANGED << intensityMult, animFrame, wordCache, scrollHandler, resizeObserver,
                  highlightedWords, primaryWord, dimOverlay, doc, elStyle, scrollY,
                  rafQueue, bodyDots, scrollListeners, observers,
                  doc0, style0, samples, lastSample, lastBranch >>

\* the queue after "if (animFrame) { cancelAnimationFrame(animFrame) }"
\* (gaze-display.ts:316-319)
QueueAfterStopMutant(q, af) == q
QueueAfterStop(q, af) == IF af # 0 THEN Cancel(q, af) ELSE q

\* the effect of stopGazeDisplay (gaze-display.ts:310-320) on the variables
\* that destroyGazeDisplay does not write afterwards
StopEffect ==
  /\ isActive' = FALSE
  /\ highlightedWords' = {}
  /\ primaryWord' = 0
  /\ dimOverlay' = NoOverlay
  /\ rafQueue' = QueueAfterStop(rafQueue, animFrame)
  /\ animFrame' = 0
  /\ samples' = 0
  /\ lastSample' = NoPoint
  /\ passes' = 0 /\ framePoint' = NoPoint /\ consumed' = 0
  /\ cleared' = Cardinality(highlightedWords)

stopGazeDisplay ==
  /\ gOp' = "stopGazeDisplay"
  /\ gAgain' = (gOp = "stopGazeDisplay")
  /\ UNCHANGED trackerVars
  /\ UNCHANGED indexVars
  /\ UNCHANGED extVars
  /\ StopEffect
  /\ focusDot' = IF focusDot.exists THEN [focusDot EXCEPT !.opacity = "0"] ELSE focusDot
  /\ cursorStyleEl' = [cursorStyleEl EXCEPT !.attached = FALSE]
  /\ headStyles' = IF cursorStyleEl.attached THEN headStyles - 1 ELSE headStyles
  /\ elStyle' = ClearStyles(elStyle, highlightedWords)
  /\ UNCHANGED << intensityMult, wordCache, cacheValid, scrollHandler, resizeObserver,
                  doc, scrollY, bodyDots, scrollListeners, observers,
                  doc0, style0, lastBranch >>

\* names that an object literal answers through Object.prototype
\* ("constructor", "toString", "valueOf", ...): map[name] is a function
Inherited == { "constructor" }

\* setIntensity (gaze-display.ts:322-325), the multiplier in tenths:
\* map[intensity] ?? 1.0, which for an inherited name is the inherited value,
\* the multiplier then being no number
IntensityMap(intensity) ==
  CASE intensity = "low" -> 5
    [] intensity = "medium" -> 10
    [] intensity = "high" -> 15
    [] intensity \in Inherited -> NotANumber
    [] OTHER -> 10

SetIntensityTo(intensity) ==
  /\ gOp' = "setIntensity"
  /\ gAgain' = (gOp = "setIntensity")
  /\ UNCHANGED trackerVars
  /\ UNCHANGED indexVars
  /\ UNCHANGED extVars
  /\ intensityMult' = IntensityMap(intensity)
  /\ passes' = 0 /\ framePoint' = NoPoint /\ consumed' = 0
  /\ cleared' = 0
  /\ UNCHANGED << focusDot, cursorStyleEl, isActive, animFrame, wordCache, cacheValid,
                  scrollHandler, resizeObserver, highlightedWords, primaryWord,
                  dimOverlay, browserVars, doc0, style0, samples, lastSample, lastBranch >>

\* setIntensity with a setting of the panel, or a string that is none
setIntensity ==
  \E intensity \in { "low", "medium", "high", "other" } : SetIntensityTo(intensity)

\* setIntensity with any string of a message (index.ts, UPDATE_DIRECTOR_SETTINGS)
setIntensityOfMessage ==
  \E intensity \in { "low", "medium", "high", "other" } \cup Inherited :
    SetIntensityTo(intensity)

\* the queue after "if (animFrame) cancelAnimationFrame(animFrame)"
\* (gaze-display.ts:332)
QueueAfterCancelMutant(q, af) == q
QueueAfterCancel(q, af) == IF af # 0 THEN Cancel(q, af) ELSE q

\* updateGaze(x, y) (gaze-display.ts:330-334)
updateGaze ==
  \E p \in Points :
    /\ gOp' = "updateGaze"
    /\ gAgain' = (gOp = "updateGaze")
    /\ UNCHANGED trackerVars
    /\ UNCHANGED indexVars
    /\ UNCHANGED extVars
    /\ passes' = 0 /\ framePoint' = NoPoint /\ consumed' = 0
    /\ cleared' = 0
    /\ IF ~isActive
         THEN UNCHANGED << animFrame, rafQueue, samples, lastSample >>
         ELSE LET q == QueueAfterCancel(rafQueue, animFrame) IN
              /\ RafFree(q, animFrame) # {}
              /\ LET id == CHOOSE i \in RafFree(q, animFrame) :
                             \A j \in RafFree(q, animFrame) : i <= j
                 IN /\ animFrame' = id
                    /\ rafQueue' = Append(q, [id |-> id, p |-> p])
              /\ samples' = IF samples < MaxSamples THEN samples + 1 ELSE samples
              /\ lastSample' = p
    /\ UNCHANGED << intensityMult, focusDot, cursorStyleEl, isActive, wordCache,
                    cacheValid, scrollHandler, resizeObserver, highlightedWords,
                    primaryWord, dimOverlay, doc, elStyle, scrollY, bodyDots,
                    headStyles, scrollListeners, observers, doc0, style0, lastBranch >>

\* styles of elements nothing refers to any more are forgotten
Forget(style, used) == [e \in Elems |-> IF e \in used THEN style[e] ELSE Pristine]

\* destroyGazeDisplay (gaze-display.ts:336-361)
destroyGazeDisplay ==
  /\ gOp' = "destroyGazeDisplay"
  /\ gAgain' = (gOp = "destroyGazeDisplay")
  /\ UNCHANGED trackerVars
  /\ UNCHANGED indexVars
  /\ UNCHANGED extVars
  /\ StopEffect
  /\ scrollListeners' = IF scrollHandler THEN scrollListeners - 1 ELSE scrollListeners
  /\ scrollHandler' = FALSE
  /\ observers' = IF resizeObserver THEN observers - 1 ELSE observers
  /\ resizeObserver' = FALSE
  /\ doc' = UnwrapDoc(doc)
  /\ elStyle' = Forget(ClearStyles(elStyle, highlightedWords), DocEls(UnwrapDoc(doc)))
  /\ style0' = Forget(style0, DocEls(UnwrapDoc(doc)))
  /\ bodyDots' = IF focusDot.exists THEN bodyDots - 1 ELSE bodyDots
  /\ focusDot' = NoDot
  /\ headStyles' = IF cursorStyleEl.attached THEN headStyles - 1 ELSE headStyles
  /\ cursorStyleEl' = NoStyleEl
  /\ wordCache' = << >>
  /\ cacheValid' = FALSE
  /\ UNCHANGED << intensityMult, scrollY, doc0, lastBranch >>

\* a repaint of the page: the browser runs the pending animation-frame
\* callbacks, each of them applyFrame(x, y) (gaze-display.ts:333)
Repaint ==
  /\ gOp' = "repaint"
  /\ gAgain' = (gOp = "repaint")
  /\ UNCHANGED trackerVars
  /\ UNCHANGED indexVars
  /\ UNCHANGED extVars
  /\ \E s \in { RunFrames(FrameState, rafQueue, intensityMult, scrollY) } :
       /\ SetFrameState(s)
       /\ lastBranch' = IF s.branch = "none" THEN lastBranch ELSE s.branch
  /\ rafQueue' = << >>
  /\ passes' = Len(rafQueue)
  /\ consumed' = samples
  /\ cleared' = 0
  /\ framePoint' = IF rafQueue = << >> THEN NoPoint ELSE rafQueue[Len(rafQueue)].p
  /\ samples' = 0
  /\ lastSample' = NoPoint
  /\ UNCHANGED << intensityMult, cursorStyleEl, isActive, animFrame, scrollHandler,
                  resizeObserver, scrollY, bodyDots, headStyles, scrollListeners,
                  observers, doc0, style0 >>

\* invalidateCache (gaze-display.ts:260-262), run by a registered listener
InvalidatedMutant(registered) == cacheValid
Invalidated(registered) == IF registered > 0 THEN FALSE ELSE cacheValid

\* the page is scrolled: a scroll event reaches the listeners of
\* gaze-display.ts:295
Scroll ==
  /\ gOp' = "scroll"
  /\ gAgain' = (gOp = "scroll")
  /\ UNCHANGED trackerVars
  /\ UNCHANGED indexVars
  /\ UNCHANGED extVars
  /\ scrollY' = IF scrollY = 0 THEN 350 ELSE 0
  /\ cacheValid' = Invalidated(scrollListeners)
  /\ passes' = 0 /\ framePoint' = NoPoint /\ consumed' = 0
  /\ cleared' = 0
  /\ UNCHANGED << intensityMult, focusDot, cursorStyleEl, isActive, animFrame, wordCache,
                  scrollHandler, resizeObserver, highlightedWords, primaryWord,
                  dimOverlay, doc, elStyle, rafQueue, bodyDots, headStyles,
                  scrollListeners, observers, doc0, style0, samples, lastSample,
                  lastBranch >>

\* the window is resized (gaze-display.ts:296) or the observed body changes
\* size (gaze-display.ts:299-300)
Resize ==
  /\ gOp' = "resize"
  /\ gAgain' = (gOp = "resize")
  /\ UNCHANGED trackerVars
  /\ UNCHANGED indexVars
  /\ UNCHANGED extVars
  /\ cacheValid' = Invalidated(scrollListeners + observers)
  /\ passes' = 0 /\ framePoint' = NoPoint /\ consumed' = 0
  /\ cleared' = 0
  /\ UNCHANGED << intensityMult, focusDot, cursorStyleEl, isActive, animFrame, wordCache,
                  scrollHandler, resizeObserver, highlightedWords, primaryWord,
                  dimOverlay, browserVars, doc0, style0, samples, lastSample, lastBranch >>

\* rebuildWordCache called on its own (gaze-display.ts:139-258)
RebuildCache ==
  /\ gOp' = "rebuildWordCache"
  /\ gAgain' = (gOp = "rebuildWordCache")
  /\ UNCHANGED trackerVars
  /\ UNCHANGED indexVars
  /\ UNCHANGED extVars
  /\ \E rb \in { rebuildWordCache(doc, scrollY, Used(FrameState)) } :
        /\ doc' = rb.doc
        /\ wordCache' = rb.wordCache
        /\ lastBranch' = rb.branch
  /\ cacheValid' = TRUE
  /\ passes' = 0 /\ framePoint' = NoPoint /\ consumed' = 0
  /\ cleared' = 0
  /\ UNCHANGED << intensityMult, focusDot, cursorStyleEl, isActive, animFrame,
                  scrollHandler, resizeObserver, highlightedWords, primaryWord,
                  dimOverlay, elStyle, scrollY, rafQueue, bodyDots, headStyles,
                  scrollListeners, observers, doc0, style0, samples, lastSample >>

\* applyFrame called on its own (gaze-display.ts:365-442)
FrameAt ==
  \E p \in FramePoints :
    /\ gOp' = "applyFrame"
    /\ gAgain' = (gOp = "applyFrame")
    /\ UNCHANGED trackerVars
    /\ UNCHANGED indexVars
    /\ UNCHANGED extVars
    /\ \E s \in { applyFrame(FrameState, p, intensityMult, scrollY) } :
         /\ SetFrameState(s)
         /\ lastBranch' = IF s.branch = "none" THEN lastBranch ELSE s.branch
    /\ passes' = 1
    /\ consumed' = 0
    /\ cleared' = 0
    /\ framePoint' = p
    /\ UNCHANGED << intensityMult, cursorStyleEl, isActive, animFrame, scrollHandler,
                    resizeObserver, scrollY, rafQueue, bodyDots, headStyles,
                    scrollListeners, observers, doc0, style0, samples, lastSample >>

\* invalidateCache called on its own (gaze-display.ts:260-262)
invalidateCache ==
  /\ gOp' = "invalidateCache"
  /\ gAgain' = (gOp = "invalidateCache")
  /\ UNCHANGED trackerVars
  /\ UNCHANGED indexVars
  /\ UNCHANGED extVars
  /\ cacheValid' = FALSE
  /\ passes' = 0 /\ framePoint' = NoPoint /\ consumed' = 0
  /\ cleared' = 0
  /\ UNCHANGED << intensityMult, focusDot, cursorStyleEl, isActive, animFrame, wordCache,
                  scrollHandler, resizeObserver, highlightedWords, primaryWord,
                  dimOverlay, browserVars, doc0, style0, samples, lastSample, lastBranch >>

\* ------------------------------------------------------------------------
\* colorizer.ts: the colorizer, which shares the page with the renderer
\* ------------------------------------------------------------------------
\* the texts token.text + token.whitespace of the tokens of a text: each word
\* with the whitespace that follows it (the tokens come from the backend)
RECURSIVE TokenTexts(_)
TokenTexts(runs) ==
  IF runs = << >> THEN << >>
  ELSE IF Len(runs) >= 2 /\ ~Blank(runs[1]) /\ Blank(runs[2])
    THEN << runs[1] \o runs[2] >> \o TokenTexts(SubSeq(runs, 3, Len(runs)))
    ELSE << runs[1] >> \o TokenTexts(Tail(runs))

\* the spans createColoredSpan makes for a text; free: the ids of the new
\* elements, in order
ColoredSpans(t, free) ==
  [m \in 1..Len(TokenTexts(Runs(t))) |-> [el |-> free[m], t |-> TokenTexts(Runs(t))[m]]]

\* removeColorization on one block: every wrapper gives way to a text node
\* with its text
DecolorizedKids(kids) ==
  [i \in 1..Len(kids) |->
     IF kids[i].k = "span" /\ kids[i].cls = "wit-colored-wrapper"
       THEN TextNode(kids[i].t)
       ELSE [kids[i] EXCEPT !.in = << >>]]

Decolorized(d) == [p \in 1..Len(d) |-> [d[p] EXCEPT !.kids = DecolorizedKids(@)]]

\* getTextNodes and replaceTextNode on one block: an accepted text node of the
\* block is replaced by a wrapper, and so is the text node inside a
\* span.wit-word, whose class is not among SKIP_CLASSES
RECURSIVE ColorizedKids(_, _, _)
ColorizedKids(kids, hidden, free) ==
  IF kids = << >> THEN [kids |-> << >>, free |-> free, made |-> << >>]
  ELSE Only({
         IF n.k = "text" /\ ~Blank(n.t) /\ ~hidden
           THEN Only({ [kids |-> << [k |-> "span", t |-> n.t, cls |-> "wit-colored-wrapper",
                                    el |-> 0, in |-> ColoredSpans(n.t, free)] >> \o r.kids,
                        free |-> r.free,
                        made |-> SubSeq(free, 1, nt) \o r.made] :
                       r \in { ColorizedKids(Tail(kids), hidden, SubSeq(free, nt + 1, Len(free))) } })
         ELSE IF n.k = "span" /\ n.cls = "wit-word" /\ n.in = << >> /\ ~Blank(n.t)
           THEN Only({ [kids |-> << [n EXCEPT !.in = ColoredSpans(n.t, free)] >> \o r.kids,
                        free |-> r.free,
                        made |-> SubSeq(free, 1, nt) \o r.made] :
                       r \in { ColorizedKids(Tail(kids), hidden, SubSeq(free, nt + 1, Len(free))) } })
         ELSE Only({ [r EXCEPT !.kids = << n >> \o @] :
                     r \in { ColorizedKids(Tail(kids), hidden, free) } }) :
         n \in { Head(kids) }, nt \in { Len(TokenTexts(Runs(Head(kids).t))) } })

RECURSIVE Colorized(_, _, _)
Colorized(d, p, free) ==
  IF p > Len(d) THEN [doc |-> << >>, made |-> << >>]
  ELSE Only({ Only({ [doc |-> << [d[p] EXCEPT !.kids = w.kids] >> \o r.doc,
                      made |-> w.made \o r.made] :
                     r \in { Colorized(d, p + 1, w.free) } }) :
              w \in { ColorizedKids(d[p].kids, d[p].hidden, free) } })

\* the elements createColoredSpan has to make for a block, and for the page
RECURSIVE TokensNeeded(_, _)
TokensNeeded(kids, hidden) ==
  IF kids = << >> THEN 0
  ELSE (IF \/ Head(kids).k = "text" /\ ~Blank(Head(kids).t) /\ ~hidden
           \/ Head(kids).k = "span" /\ Head(kids).cls = "wit-word" /\ ~Blank(Head(kids).t)
          THEN Len(TokenTexts(Runs(Head(kids).t))) ELSE 0)
       + TokensNeeded(Tail(kids), hidden)

RECURSIVE TokensNeededDoc(_, _)
TokensNeededDoc(d, p) ==
  IF p > Len(d) THEN 0
  ELSE TokensNeeded(d[p].kids, d[p].hidden) + TokensNeededDoc(d, p + 1)

\* the elements something still refers to
Referenced(d) ==
  DocEls(d) \cup highlightedWords \cup ({primaryWord} \ {0})
    \cup { wordCache[i].el : i \in 1..Len(wordCache) }

\* removeColorization (colorizer.ts, removeColorization)
removeColorization ==
  /\ gOp' = "removeColorization"
  /\ gAgain' = (gOp = "removeColorization")
  /\ UNCHANGED trackerVars
  /\ UNCHANGED indexVars
  /\ UNCHANGED extVars
  /\ doc' = Decolorized(doc)
  /\ elStyle' = Forget(elStyle, Referenced(Decolorized(doc)))
  /\ style0' = Forget(style0, Referenced(Decolorized(doc)))
  /\ passes' = 0 /\ framePoint' = NoPoint /\ consumed' = 0
  /\ cleared' = 0
  /\ UNCHANGED << moduleVars, scrollY, rafQueue, bodyDots, headStyles, scrollListeners,
                  observers, doc0, samples, lastSample, lastBranch >>

\* colorizeDocument (colorizer.ts, colorizeDocument) with the answer of the
\* backend arriving before anything else happens on the page; every token of
\* the answer has the colour color
colorizeDocument ==
  \E color \in { Dark, Light } :
    /\ TokensNeededDoc(Decolorized(doc), 1)
          <= Cardinality(Elems \ Referenced(Decolorized(doc)))
    /\ \E c \in { Colorized(Decolorized(doc), 1,
                            SortedSeq(Elems \ Referenced(Decolorized(doc)))) } :
      /\ gOp' = "colorizeDocument"
      /\ gAgain' = (gOp = "colorizeDocument")
      /\ UNCHANGED trackerVars
      /\ UNCHANGED indexVars
      /\ UNCHANGED extVars
      /\ doc' = c.doc
      /\ elStyle' = [e \in Elems |->
                       IF e \in Range(c.made)
                         THEN [bg |-> NoBg, shadow |-> NoBg, color |-> color]
                       ELSE IF e \in Referenced(Decolorized(doc)) THEN elStyle[e]
                       ELSE Pristine]
      /\ style0' = [e \in Elems |->
                      IF e \in Range(c.made)
                        THEN [bg |-> NoBg, shadow |-> NoBg, color |-> color]
                      ELSE IF e \in Referenced(Decolorized(doc)) THEN style0[e]
                      ELSE Pristine]
      /\ passes' = 0 /\ framePoint' = NoPoint /\ consumed' = 0
      /\ cleared' = 0
      /\ UNCHANGED << moduleVars, scrollY, rafQueue, bodyDots, headStyles, scrollListeners,
                      observers, doc0, samples, lastSample, lastBranch >>

\* ------------------------------------------------------------------------
\* index.ts: Director Mode
\* ------------------------------------------------------------------------
\* the message of sendToPanel at index.ts:367-371 and 380-384
TrackingStatusMutant(active) == [type |-> "TRACKING_STATUS", active |-> TRUE]
TrackingStatus(active) == [type |-> "TRACKING_STATUS", active |-> active]

\* startDirectorMode (index.ts:354-373): initGazeDisplay, setIntensity,
\* initCursorTracker, startTracking, startGazeDisplay, sendToPanel, in one turn
startDirectorMode ==
  /\ ~StartTrackingReturnsEarly =>
       \E h \in HandlerIds : h \notin mouseListeners /\ h # mouseMoveHandler
  /\ gOp' = "startDirectorMode"
  /\ gAgain' = (gOp = "startDirectorMode")
  /\ tOp' = "startDirectorMode"
  /\ tAgain' = (tOp = "startDirectorMode")
  \* initGazeDisplay, then startGazeDisplay on the elements just created
  /\ focusDot' = [exists |-> TRUE, opacity |-> "1", pos |-> NoPoint]
  /\ bodyDots' = bodyDots + 1
  /\ cursorStyleEl' = [exists |-> TRUE, attached |-> TRUE]
  /\ headStyles' = HeadAfterAppend(headStyles, [exists |-> TRUE, attached |-> FALSE])
  /\ scrollHandler' = TRUE
  /\ scrollListeners' = scrollListeners + 1
  /\ resizeObserver' = TRUE
  /\ observers' = observers + 1
  /\ isActive' = TRUE
  /\ cacheValid' = FALSE
  \* setIntensity(directorSettings.crowdingIntensity)
  /\ intensityMult' = IntensityMap(directorSettings'.crowdingIntensity)
  \* initCursorTracker, startTracking
  /\ gazeCallback' = "cb"
  /\ IF StartTrackingReturnsEarly
       THEN UNCHANGED << mouseMoveHandler, isTracking, mouseListeners, starts >>
       ELSE /\ isTracking' = TRUE
            /\ mouseMoveHandler' = FreshHandler
            /\ mouseListeners' = mouseListeners \cup {FreshHandler}
            /\ starts' = IF starts < MaxStarts THEN starts + 1 ELSE starts
  /\ panelInbox' = Append(panelInbox, TrackingStatus(TRUE))
  /\ passes' = 0 /\ framePoint' = NoPoint /\ consumed' = 0
  /\ cleared' = 0
  /\ UNCHANGED << emitted, lastCalls, lastGaze, animFrame, wordCache, highlightedWords,
                  primaryWord, dimOverlay, doc, elStyle, scrollY, rafQueue,
                  doc0, style0, samples, lastSample, lastBranch >>

\* stopDirectorMode (index.ts:375-385): stopTracking, stopGazeDisplay,
\* destroyCursorTracker, destroyGazeDisplay, sendToPanel, in one turn
stopDirectorMode ==
  /\ gOp' = "stopDirectorMode"
  /\ gAgain' = (gOp = "stopDirectorMode")
  /\ tOp' = "stopDirectorMode"
  /\ tAgain' = (tOp = "stopDirectorMode")
  /\ StopTrackingEffect
  /\ gazeCallback' = "null"
  /\ StopEffect
  /\ scrollListeners' = IF scrollHandler THEN scrollListeners - 1 ELSE scrollListeners
  /\ scrollHandler' = FALSE
  /\ observers' = IF resizeObserver THEN observers - 1 ELSE observers
  /\ resizeObserver' = FALSE
  /\ doc' = UnwrapDoc(doc)
  /\ elStyle' = Forget(ClearStyles(elStyle, highlightedWords), DocEls(UnwrapDoc(doc)))
  /\ style0' = Forget(style0, DocEls(UnwrapDoc(doc)))
  /\ bodyDots' = IF focusDot.exists THEN bodyDots - 1 ELSE bodyDots
  /\ focusDot' = NoDot
  /\ headStyles' = IF cursorStyleEl.attached THEN headStyles - 1 ELSE headStyles
  /\ cursorStyleEl' = NoStyleEl
  /\ wordCache' = << >>
  /\ cacheValid' = FALSE
  /\ panelInbox' = Append(panelInbox, TrackingStatus(FALSE))
  /\ UNCHANGED << emitted, lastCalls, lastGaze, starts, intensityMult, scrollY, doc0,
                  lastBranch >>

\* handlePanelMessage, case "TOGGLE_DIRECTOR_MODE" (index.ts:329-339)
ToggleDirectorMode ==
  \E enabled \in BOOLEAN, crowdingIntensity \in { "low", "medium", "high" } :
    /\ Len(panelInbox) < MaxStatus
    /\ directorSettings' = [enabled |-> enabled, crowdingIntensity |-> crowdingIntensity]
    /\ IF enabled THEN startDirectorMode ELSE stopDirectorMode
    /\ UNCHANGED extVars

\* a mousemove event while the tracker runs: the callback given to
\* initCursorTracker calls updateGaze (index.ts:359-361)
PointerGaze == isTracking /\ gazeCallback = "cb" /\ updateGaze

\* Director Mode switched by the panel, the pointer moving over the page
DirectorNext ==
  \/ ToggleDirectorMode
  \/ PointerGaze
  \/ Repaint

\* the renderer is initialised when it has been torn down (or never set up)
GazeNext ==
  \/ ~focusDot.exists /\ initGazeDisplay
  \/ startGazeDisplay
  \/ stopGazeDisplay
  \/ setIntensity
  \/ updateGaze
  \/ destroyGazeDisplay
  \/ Repaint
  \/ Scroll
  \/ Resize

WrapNext ==
  \/ RebuildCache
  \/ destroyGazeDisplay
  \/ Scroll

FrameNext ==
  \/ FrameAt
  \/ setIntensity
  \/ Scroll
  \/ invalidateCache

\* frames under any intensity a message can set
IntensityNext ==
  \/ setIntensityOfMessage
  \/ FrameAt

\* the renderer and the colorizer on one page (index.ts: TOGGLE_COLOR_CODING and
\* TOGGLE_DIRECTOR_MODE are handled independently of each other)
ColorNext ==
  \/ colorizeDocument
  \/ removeColorization
  \/ FrameAt
  \/ invalidateCache
  \/ destroyGazeDisplay

\* ------------------------------------------------------------------------
\* Pages and initial states
\* ------------------------------------------------------------------------
RECURSIVE SeqsUpTo(_, _)
SeqsUpTo(S, n) ==
  IF n = 0 THEN { << >> }
  ELSE LET shorter == SeqsUpTo(S, n - 1)
       IN shorter \cup { Append(s, x) : s \in shorter, x \in S }

Texts == SeqsUpTo(Chars, MaxTextLen)

PristineAll == [e \in Elems |-> Pristine]
PageYellow == [rgb |-> << 255, 255, 0 >>, a |-> 1000]

\* a page with two lines of plain text: "a b" and "a"
PlainPage ==
  [doc |-> << Block(FALSE, << TextNode(<< "a", " ", "b" >>) >>),
              Block(FALSE, << TextNode(<< "a" >>) >>) >>,
   style |-> PristineAll]

\* a page that holds colorizer spans (colorizer: createColoredSpan sets the
\* colour); the first one also carries an inline background that the renderer
\* did not put there
ColoredPage ==
  [doc |-> << Block(FALSE, << SpanNode("wit-colored", 1, << "a" >>),
                              SpanNode("wit-colored", 2, << "b" >>) >>),
              Block(FALSE, << TextNode(<< "a" >>) >>) >>,
   style |-> [e \in Elems |->
                IF e = 1 THEN [bg |-> PageYellow, shadow |-> NoBg, color |-> Dark]
                ELSE IF e = 2 THEN [bg |-> NoBg, shadow |-> NoBg, color |-> Light]
                ELSE Pristine]]

\* a page whose only text is not displayed
HiddenPage ==
  [doc |-> << Block(TRUE, << TextNode(<< "a" >>) >>) >>, style |-> PristineAll]

ScenePages == { PlainPage, ColoredPage }

\* pages of one block with up to two child nodes: any text node, or a
\* colorizer span
NodeChoices == { TextNode(t) : t \in Texts } \cup { SpanNode("wit-colored", 0, << "a" >>) }
OneBlockPage(hidden, nodes) ==
  [doc |-> << Block(hidden,
                    [i \in 1..Len(nodes) |->
                       IF nodes[i].k = "span" THEN [nodes[i] EXCEPT !.el = i] ELSE nodes[i]]) >>,
   style |-> [e \in Elems |->
                IF e <= Len(nodes) /\ nodes[e].k = "span"
                  THEN [bg |-> NoBg, shadow |-> NoBg, color |-> Dark]
                  ELSE Pristine]]
\* a long page: its two words are never in the viewport band together
LongPage ==
  [doc |-> << Block(FALSE, << TextNode(<< "a" >>) >>), Block(FALSE, << >>),
              Block(FALSE, << >>), Block(FALSE, << TextNode(<< "b" >>) >>) >>,
   style |-> PristineAll]
WrapPages ==
  { OneBlockPage(FALSE, ns) : ns \in SeqsUpTo(NodeChoices, 2) }
    \cup { OneBlockPage(TRUE, << n >>) : n \in NodeChoices }
    \cup ScenePages \cup { HiddenPage, LongPage }

\* index.ts: directorSettings as declared, nothing posted to the panel yet
IndexInit ==
  /\ directorSettings = [enabled |-> FALSE, crowdingIntensity |-> "medium"]
  /\ panelInbox = << >>

GazeInitOn(page) ==
  /\ intensityMult = 10
  /\ focusDot = NoDot
  /\ cursorStyleEl = NoStyleEl
  /\ isActive = FALSE
  /\ animFrame = 0
  /\ wordCache = << >>
  /\ cacheValid = FALSE
  /\ scrollHandler = FALSE
  /\ resizeObserver = FALSE
  /\ highlightedWords = {}
  /\ primaryWord = 0
  /\ dimOverlay = NoOverlay
  /\ doc = page.doc
  /\ elStyle = page.style
  /\ scrollY = 0
  /\ rafQueue = << >>
  /\ bodyDots = 0
  /\ headStyles = 0
  /\ scrollListeners = 0
  /\ observers = 0
  /\ doc0 = page.doc
  /\ style0 = page.style
  /\ gOp = "init"
  /\ samples = 0
  /\ lastSample = NoPoint
  /\ passes = 0
  /\ framePoint = NoPoint
  /\ lastBranch = "none"
  /\ consumed = 0
  /\ cleared = 0
  /\ gAgain = FALSE
  /\ IndexInit

\* ------------------------------------------------------------------------
\* colorizer.ts and index.ts: colour coding with the backend's answers awaited
\* ------------------------------------------------------------------------
\* delays of recolorize (colorizer.ts) and of the PROCESSING_DONE that follows
\* an UPDATE_COLOR_SETTINGS (index.ts), in milliseconds; time advances in
\* steps of TickMs
RECOLORIZE_MS == 300
PROCESSING_DONE_MS == 2000
TickMs == RECOLORIZE_MS \div 3

\* scheme, emphasis and showFunctionWords travel together: one value stands
\* for the three
Schemes == { "default", "warm" }
NoScheme == "none"

\* A slot of body holds a text node or the span.wit-colored-wrapper standing
\* in its place; orig tells whether the text node (attached, or kept by the
\* record of the wrapper) is the one the page was loaded with.  A wrapper
\* without a record is one an earlier instance of the content script left.
TextSlot == [k |-> "text", orig |-> TRUE]
OrphanSlot == [k |-> "wrapper", orig |-> FALSE]

\* removeColorization, first loop: every record whose wrapper is attached
\* gets its original text node back
RestoredMutant(b, cn) == b
Restored(b, cn) ==
  [p \in 1..Len(b) |->
     IF p \in Range(cn) /\ b[p].k = "wrapper" THEN [b[p] EXCEPT !.k = "text"] ELSE b[p]]

\* removeColorization, closing sweep: a wrapper still in the document is
\* replaced by a new text node of the same text
Swept(b) ==
  [p \in 1..Len(b) |-> IF b[p].k = "wrapper" THEN [k |-> "text", orig |-> FALSE] ELSE b[p]]

\* getTextNodes(document.body): the attached text nodes, in document order
getTextNodes(b) ==
  Only({ [i \in 1..Len(ps) |-> [pos |-> ps[i], orig |-> b[ps[i]].orig]] :
           ps \in { SortedSeq({ p \in 1..Len(b) : b[p].k = "text" }) } })

\* batchTextNodes
RECURSIVE batchTextNodes(_, _)
batchTextNodes(nodes, maxBatchSize) ==
  IF Len(nodes) <= maxBatchSize THEN (IF nodes = << >> THEN << >> ELSE << nodes >>)
  ELSE << SubSeq(nodes, 1, maxBatchSize) >>
         \o batchTextNodes(SubSeq(nodes, maxBatchSize + 1, Len(nodes)), maxBatchSize)

\* replaceTextNode goes on only if textNode.parentNode is not null
Attached(b, node) == b[node.pos].k = "text" /\ b[node.pos].orig = node.orig

\* the panel's handler: isProcessing after a message of this type
PanelAfterMutant(type) == TRUE
PanelAfter(type) == type = "PROCESSING_START"

\* "if (isColorizing) return"
AlreadyColorizingMutant(flag) == FALSE
AlreadyColorizing(flag) == flag

\* colorizeDocument from its call to its first await, or to its return when
\* it does not await: settled tells that the promise is resolved at once
ColorizeCall(b, cn, flag, run, from) ==
  IF AlreadyColorizing(flag)
    THEN [body |-> b, coloredNodes |-> cn, isColorizing |-> flag, running |-> run,
          settled |-> TRUE, restored |-> 0]
  ELSE Only({ [body |-> clean, coloredNodes |-> << >>,
               isColorizing |-> getTextNodes(clean) # << >>,
               running |-> IF getTextNodes(clean) = << >> THEN run
                           ELSE Append(run, [todo |-> batchTextNodes(getTextNodes(clean),
                                                                     MaxBatch),
                                             from |-> from]),
               settled |-> getTextNodes(clean) = << >>,
               restored |-> Cardinality({ p \in Range(cn) : b[p].k = "wrapper" })] :
              clean \in { Swept(Restored(b, cn)) } })

\* handlePanelMessage, case "TOGGLE_COLOR_CODING"; the then-callback of a
\* promise that is already resolved runs before any other event
ToggleColorCoding ==
  \E enabled \in BOOLEAN, scheme \in Schemes :
    /\ panelMsgs < MaxPanelMsgs
    /\ panelMsgs' = panelMsgs + 1
    /\ colorSettings' = [enabled |-> enabled, scheme |-> scheme]
    /\ offHandled' = ~enabled
    /\ IF enabled
         THEN \E c \in { ColorizeCall(body, coloredNodes, isColorizing, running, "toggle") } :
                /\ cOp' = "toggleOn"
                /\ body' = c.body
                /\ coloredNodes' = c.coloredNodes
                /\ isColorizing' = c.isColorizing
                /\ running' = c.running
                /\ restored' = c.restored
                /\ isProcessing' = IF c.settled THEN PanelAfter("PROCESSING_DONE")
                                                ELSE PanelAfter("PROCESSING_START")
         ELSE /\ cOp' = "toggleOff"
              /\ body' = Swept(Restored(body, coloredNodes))
              /\ coloredNodes' = << >>
              /\ restored' = Cardinality({ p \in Range(coloredNodes) : body[p].k = "wrapper" })
              /\ UNCHANGED << isColorizing, running, isProcessing >>
    /\ UNCHANGED << timeouts, sinceLast, firedSince, lastArgs, lastCall, body00 >>
    /\ UNCHANGED << trackerVars, gazeVars, indexVars, socketVars, webcamVars >>

\* "if (recolorizeTimer) clearTimeout(recolorizeTimer)": the timeout the
\* handle refers to is dropped
TimeoutsAfterClearMutant(ts) == [i \in 1..Len(ts) |-> [ts[i] EXCEPT !.handle = FALSE]]
TimeoutsAfterClear(ts) == Pick(ts, { i \in 1..Len(ts) : ~ts[i].handle }, 1)

\* handlePanelMessage, case "UPDATE_COLOR_SETTINGS", with the call of
\* recolorize and the setTimeout that follows it
UpdateColorSettings ==
  \E scheme \in Schemes :
    /\ panelMsgs < MaxPanelMsgs
    /\ panelMsgs' = panelMsgs + 1
    /\ colorSettings' = [colorSettings EXCEPT !.scheme = scheme]
    /\ cOp' = "updateColorSettings"
    /\ restored' = 0
    /\ IF colorSettings.enabled
         THEN /\ isProcessing' = PanelAfter("PROCESSING_START")
              /\ timeouts' = TimeoutsAfterClear(timeouts)
                   \o << [fn |-> "recolorize", left |-> RECOLORIZE_MS,
                          scheme |-> scheme, handle |-> TRUE],
                         [fn |-> "done", left |-> PROCESSING_DONE_MS,
                          scheme |-> NoScheme, handle |-> FALSE] >>
              /\ sinceLast' = 0
              /\ firedSince' = 0
              /\ lastArgs' = scheme
         ELSE UNCHANGED << isProcessing, timeouts, sinceLast, firedSince, lastArgs >>
    /\ UNCHANGED << body, coloredNodes, isColorizing, running, offHandled, lastCall, body00 >>
    /\ UNCHANGED << trackerVars, gazeVars, indexVars, socketVars, webcamVars >>

\* TickMs pass; a timeout that is due runs before time goes on
Tick ==
  /\ timeouts # << >>
  /\ \A i \in 1..Len(timeouts) : timeouts[i].left > 0
  /\ timeouts' = [i \in 1..Len(timeouts) |-> [timeouts[i] EXCEPT !.left = @ - TickMs]]
  /\ sinceLast' = IF lastArgs # NoScheme /\ sinceLast <= RECOLORIZE_MS
                    THEN sinceLast + TickMs ELSE sinceLast
  /\ cOp' = "tick"
  /\ restored' = 0
  /\ UNCHANGED << colorSettings, body, coloredNodes, isColorizing, running, isProcessing,
                  panelMsgs, offHandled, firedSince, lastArgs, lastCall, body00 >>
  /\ UNCHANGED << trackerVars, gazeVars, indexVars, socketVars, webcamVars >>

\* time goes on to the instant the next timeout is due
NextDue(ts) ==
  CHOOSE d \in { ts[i].left : i \in 1..Len(ts) } : \A i \in 1..Len(ts) : d <= ts[i].left
Leap ==
  /\ timeouts # << >>
  /\ \A i \in 1..Len(timeouts) : timeouts[i].left > 0
  /\ \E d \in { NextDue(timeouts) } :
       /\ timeouts' = [i \in 1..Len(timeouts) |-> [timeouts[i] EXCEPT !.left = @ - d]]
       /\ sinceLast' = IF lastArgs = NoScheme THEN sinceLast
                       ELSE IF sinceLast + d <= RECOLORIZE_MS THEN sinceLast + d
                       ELSE RECOLORIZE_MS + TickMs
  /\ cOp' = "tick"
  /\ restored' = 0
  /\ UNCHANGED << colorSettings, body, coloredNodes, isColorizing, running, isProcessing,
                  panelMsgs, offHandled, firedSince, lastArgs, lastCall, body00 >>
  /\ UNCHANGED << trackerVars, gazeVars, indexVars, socketVars, webcamVars >>

\* the timeout that runs next: the first one set among those that are due
FirstDue(ts) == CHOOSE i \in 1..Len(ts) : ts[i].left = 0 /\ \A j \in 1..(i - 1) : ts[j].left # 0

\* the callback recolorize gave to setTimeout: colorizeDocument is called
RecolorizeTimeout ==
  /\ \E j \in 1..Len(timeouts) : timeouts[j].left = 0
  /\ \E i \in { FirstDue(timeouts) } :
       /\ timeouts[i].fn = "recolorize"
       /\ timeouts' = Pick(timeouts, (1..Len(timeouts)) \ { i }, 1)
       /\ lastCall' = timeouts[i].scheme
  /\ \E c \in { ColorizeCall(body, coloredNodes, isColorizing, running, "recolorize") } :
       /\ body' = c.body
       /\ coloredNodes' = c.coloredNodes
       /\ isColorizing' = c.isColorizing
       /\ running' = c.running
       /\ restored' = c.restored
  /\ firedSince' = IF firedSince < 2 THEN firedSince + 1 ELSE firedSince
  /\ cOp' = "recolorizeTimeout"
  /\ UNCHANGED << colorSettings, isProcessing, panelMsgs, offHandled, sinceLast, lastArgs,
                  body00 >>
  /\ UNCHANGED << trackerVars, gazeVars, indexVars, socketVars, webcamVars >>

\* the callback of the setTimeout in case "UPDATE_COLOR_SETTINGS"
DoneTimeout ==
  /\ \E j \in 1..Len(timeouts) : timeouts[j].left = 0
  /\ \E i \in { FirstDue(timeouts) } :
       /\ timeouts[i].fn = "done"
       /\ timeouts' = Pick(timeouts, (1..Len(timeouts)) \ { i }, 1)
  /\ isProcessing' = PanelAfter("PROCESSING_DONE")
  /\ cOp' = "doneTimeout"
  /\ restored' = 0
  /\ UNCHANGED << colorSettings, body, coloredNodes, isColorizing, running, panelMsgs,
                  offHandled, sinceLast, firedSince, lastArgs, lastCall, body00 >>
  /\ UNCHANGED << trackerVars, gazeVars, indexVars, socketVars, webcamVars >>

\* colorizeBatch settles for a call that awaits it, and colorizeDocument
\* runs on to its next await or to its end.  With ok the answer has sentences
\* for every text of the batch; without, the request failed or the answer
\* was empty.  At the end the guard is released and the promise is resolved.
BatchResponse ==
  \E r \in 1..Len(running), ok \in BOOLEAN :
    \E batch \in { Head(running[r].todo) } :
      \E hit \in { IF ok THEN { j \in 1..Len(batch) : Attached(body, batch[j]) } ELSE {} } :
        /\ body' = [p \in 1..Len(body) |->
                      IF \E j \in hit : batch[j].pos = p
                        THEN [body[p] EXCEPT !.k = "wrapper"] ELSE body[p]]
        /\ coloredNodes' = coloredNodes \o SortedSeq({ batch[j].pos : j \in hit })
        /\ IF Len(running[r].todo) = 1
             THEN /\ running' = Pick(running, (1..Len(running)) \ { r }, 1)
                  /\ isColorizing' = FALSE
                  /\ isProcessing' = IF running[r].from = "toggle"
                                       THEN PanelAfter("PROCESSING_DONE") ELSE isProcessing
             ELSE /\ running' = [running EXCEPT ![r].todo = Tail(@)]
                  /\ UNCHANGED << isColorizing, isProcessing >>
        /\ cOp' = IF ok THEN "batchColored" ELSE "batchFailed"
        /\ restored' = 0
        /\ UNCHANGED << colorSettings, timeouts, panelMsgs, offHandled, sinceLast,
                        firedSince, lastArgs, lastCall, body00 >>
        /\ UNCHANGED << trackerVars, gazeVars, indexVars, socketVars, webcamVars >>

ColorizerNext ==
  \/ ToggleColorCoding
  \/ UpdateColorSettings
  \/ Tick
  \/ RecolorizeTimeout
  \/ DoneTimeout
  \/ BatchResponse

\* the same steps with time going from one due instant to the next
ColorizerLiveNext ==
  \/ ToggleColorCoding
  \/ UpdateColorSettings
  \/ Leap
  \/ RecolorizeTimeout
  \/ DoneTimeout
  \/ BatchResponse

\* colorizer.ts and index.ts as loaded, on a page whose text-node slots are b
ColorizerInitOn(b) ==
  /\ colorSettings = [enabled |-> FALSE, scheme |-> "default"]
  /\ body = b
  /\ coloredNodes = << >>
  /\ isColorizing = FALSE
  /\ running = << >>
  /\ timeouts = << >>
  /\ isProcessing = FALSE
  /\ panelMsgs = 0
  /\ offHandled = FALSE
  /\ sinceLast = 0
  /\ firedSince = 0
  /\ lastArgs = NoScheme
  /\ lastCall = NoScheme
  /\ restored = 0
  /\ body00 = b
  /\ cOp = "init"

\* pages of up to MaxNodes text nodes, the first of them possibly left
\* coloured by an earlier instance
BodyPages ==
  { [p \in 1..n |-> IF p = 1 /\ o THEN OrphanSlot ELSE TextSlot] :
      n \in 0..MaxNodes, o \in BOOLEAN }

\* ------------------------------------------------------------------------
\* api.ts: GazeWebSocket
\* ------------------------------------------------------------------------
\* the delay of the reconnect, in milliseconds; time advances in steps of
\* SocketTickMs
RECONNECT_MS == 2000
SocketTickMs == RECONNECT_MS \div 2

SocketInit ==
  /\ ws = 0
  /\ isIntentionallyClosed = FALSE
  /\ reconnectTimers = << >>
  /\ sockets = {}
  /\ created = 0
  /\ wsOp = "init"

\* the sockets that are connecting or open
Live(ss) == { s \in ss : s.state = "open" }

\* _connect: nothing when the instance was closed on purpose, else a new
\* socket that this.ws refers to from now on
ConnectEffect ==
  IF isIntentionallyClosed'
    THEN UNCHANGED << ws, sockets, created >>
    ELSE /\ created < MaxSockets
         /\ created' = created + 1
         /\ ws' = created + 1
         /\ sockets' = sockets \cup { [id |-> created + 1, state |-> "open"] }

\* connect(onUpdate)
connect ==
  /\ isIntentionallyClosed' = FALSE
  /\ ConnectEffect
  /\ wsOp' = "connect"
  /\ UNCHANGED reconnectTimers
  /\ UNCHANGED << trackerVars, gazeVars, indexVars, colorizerVars, webcamVars >>

\* disconnect(): the timeout the handle refers to is cleared, this.ws is
\* asked to close and forgotten
disconnect ==
  /\ isIntentionallyClosed' = TRUE
  /\ reconnectTimers' =
       Pick(reconnectTimers, { i \in 1..Len(reconnectTimers) : ~reconnectTimers[i].handle }, 1)
  /\ sockets' = { IF s.id = ws THEN [s EXCEPT !.state = "closing"] ELSE s : s \in sockets }
  /\ ws' = 0
  /\ wsOp' = "disconnect"
  /\ UNCHANGED created
  /\ UNCHANGED << trackerVars, gazeVars, indexVars, colorizerVars, webcamVars >>

\* the timers after "this.reconnectTimer = setTimeout(...)" of onclose
TimersAfterClose(ts, closedOnPurpose) ==
  IF closedOnPurpose THEN ts
  ELSE [i \in 1..Len(ts) |-> [ts[i] EXCEPT !.handle = FALSE]]
         \o << [left |-> RECONNECT_MS, handle |-> TRUE] >>

\* the close event of a socket (the connection failed or was lost, or a
\* close that was asked for is done): its onclose handler runs
SocketClosed ==
  \E s \in sockets :
    /\ sockets' = sockets \ { s }
    /\ reconnectTimers' = TimersAfterClose(reconnectTimers, isIntentionallyClosed)
    /\ wsOp' = IF s.state = "open" THEN "lost" ELSE "closed"
    /\ UNCHANGED << ws, isIntentionallyClosed, created >>
    /\ UNCHANGED << trackerVars, gazeVars, indexVars, colorizerVars, webcamVars >>

\* SocketTickMs pass; a timeout that is due runs before time goes on
SocketTick ==
  /\ reconnectTimers # << >>
  /\ \A i \in 1..Len(reconnectTimers) : reconnectTimers[i].left > 0
  /\ reconnectTimers' = [i \in 1..Len(reconnectTimers) |->
                           [reconnectTimers[i] EXCEPT !.left = @ - SocketTickMs]]
  /\ wsOp' = "tick"
  /\ UNCHANGED << ws, isIntentionallyClosed, sockets, created >>
  /\ UNCHANGED << trackerVars, gazeVars, indexVars, colorizerVars, webcamVars >>

\* the callback of the reconnect timeout: _connect()
ReconnectTimeout ==
  /\ reconnectTimers # << >>
  /\ Head(reconnectTimers).left = 0
  /\ reconnectTimers' = Tail(reconnectTimers)
  /\ UNCHANGED isIntentionallyClosed
  /\ ConnectEffect
  /\ wsOp' = "reconnect"
  /\ UNCHANGED << trackerVars, gazeVars, indexVars, colorizerVars, webcamVars >>

SocketNext ==
  \/ connect
  \/ disconnect
  \/ SocketClosed
  \/ SocketTick
  \/ ReconnectTimeout

\* ------------------------------------------------------------------------
\* tracker.js: the webcam tracker page
\* ------------------------------------------------------------------------
WebcamInit ==
  /\ isRunning = FALSE
  /\ gazeInterval = FALSE
  /\ intervals = 0
  /\ beginPending = 0
  /\ webLastGaze = "null"
  /\ webgazerOn = FALSE
  /\ wantGaze = FALSE
  /\ commands = 0
  /\ camOp = "init"

\* message START: startTracking() up to the call of webgazer.begin()
StartMessage ==
  /\ commands < MaxCommands
  /\ commands' = commands + 1
  /\ wantGaze' = TRUE
  /\ camOp' = "START"
  /\ beginPending' = IF isRunning THEN beginPending ELSE beginPending + 1
  /\ UNCHANGED << isRunning, gazeInterval, intervals, webLastGaze, webgazerOn >>
  /\ UNCHANGED << trackerVars, gazeVars, indexVars, colorizerVars, socketVars >>

\* message STOP: stopTracking()
StopMessage ==
  /\ commands < MaxCommands
  /\ commands' = commands + 1
  /\ wantGaze' = FALSE
  /\ camOp' = "STOP"
  /\ IF ~isRunning
       THEN UNCHANGED << isRunning, gazeInterval, intervals, webLastGaze, webgazerOn >>
       ELSE /\ intervals' = IF gazeInterval THEN intervals - 1 ELSE intervals
            /\ gazeInterval' = FALSE
            /\ webgazerOn' = FALSE
            /\ isRunning' = FALSE
            /\ webLastGaze' = "null"
  /\ UNCHANGED beginPending
  /\ UNCHANGED << trackerVars, gazeVars, indexVars, colorizerVars, socketVars >>

\* the promise of webgazer.begin() is fulfilled: the then-callback runs
BeginResolved ==
  /\ beginPending > 0
  /\ beginPending' = beginPending - 1
  /\ isRunning' = TRUE
  /\ webgazerOn' = TRUE
  /\ gazeInterval' = TRUE
  /\ intervals' = intervals + 1
  /\ camOp' = "active"
  /\ UNCHANGED << webLastGaze, wantGaze, commands >>
  /\ UNCHANGED << trackerVars, gazeVars, indexVars, colorizerVars, socketVars >>

\* the promise of webgazer.begin() is rejected: handleError
BeginRejected ==
  /\ beginPending > 0
  /\ beginPending' = beginPending - 1
  /\ camOp' = "error"
  /\ UNCHANGED << isRunning, gazeInterval, intervals, webLastGaze, webgazerOn, wantGaze,
                  commands >>
  /\ UNCHANGED << trackerVars, gazeVars, indexVars, colorizerVars, socketVars >>

\* the gaze listener is called with a prediction
GazeData ==
  /\ webgazerOn
  /\ webLastGaze' = "fresh"
  /\ camOp' = "data"
  /\ UNCHANGED << isRunning, gazeInterval, intervals, beginPending, webgazerOn, wantGaze,
                  commands >>
  /\ UNCHANGED << trackerVars, gazeVars, indexVars, colorizerVars, socketVars >>

\* more than STALE_MS pass without a prediction
GazeStale ==
  /\ webLastGaze = "fresh"
  /\ webLastGaze' = "stale"
  /\ camOp' = "stale"
  /\ UNCHANGED << isRunning, gazeInterval, intervals, beginPending, webgazerOn, wantGaze,
                  commands >>
  /\ UNCHANGED << trackerVars, gazeVars, indexVars, colorizerVars, socketVars >>

\* a callback of a running interval: GAZE is posted when lastGaze is fresh
IntervalCallback ==
  /\ intervals > 0
  /\ camOp' = IF webLastGaze = "fresh" THEN "GAZE" ELSE "idle"
  /\ UNCHANGED << isRunning, gazeInterval, intervals, beginPending, webLastGaze,
                  webgazerOn, wantGaze, commands >>
  /\ UNCHANGED << trackerVars, gazeVars, indexVars, colorizerVars, socketVars >>

WebcamNext ==
  \/ StartMessage
  \/ StopMessage
  \/ BeginResolved
  \/ BeginRejected
  \/ GazeData
  \/ GazeStale
  \/ IntervalCallback

\* the other components as loaded, on a page without text
ExtInit == ColorizerInitOn(<< >>) /\ SocketInit /\ WebcamInit

\* colour coding switched and tuned by the panel while the backend answers
InitColorizer ==
  /\ TrackerInit /\ GazeInitOn(PlainPage) /\ SocketInit /\ WebcamInit
  /\ \E b \in BodyPages : ColorizerInitOn(b)
SpecColorizer == InitColorizer /\ [][ColorizerNext]_vars

\* the same with time going on, every timeout running when it is due and
\* every request to the backend settling
SpecColorizerLive ==
  /\ InitColorizer /\ [][ColorizerLiveNext]_vars
  /\ WF_vars(Leap) /\ WF_vars(RecolorizeTimeout) /\ WF_vars(DoneTimeout)
  /\ WF_vars(BatchResponse)

\* every component as loaded
InitLoaded ==
  TrackerInit /\ GazeInitOn(PlainPage) /\ ColorizerInitOn(<< >>) /\ SocketInit /\ WebcamInit
\* one GazeWebSocket, its caller and the network
SpecSocket == InitLoaded /\ [][SocketNext]_vars

\* the tracker page, the content script's commands and webgazer
SpecWebcam == InitLoaded /\ [][WebcamNext]_vars

\* the renderer on a page, driven through its exported functions
Init == TrackerInit /\ ExtInit /\ \E page \in ScenePages : GazeInitOn(page)
Next == GazeNext
Spec == Init /\ [][Next]_vars

\* word discovery and teardown on every small page
InitWrap == TrackerInit /\ ExtInit /\ \E page \in WrapPages : GazeInitOn(page)
SpecWrap == InitWrap /\ [][WrapNext]_vars

\* applyFrame on a page, for any sample, intensity and scroll offset
FourWordPage ==
  [doc |-> << Block(FALSE, << TextNode(<< "a", " ", "b" >>), TextNode(<< " ", "a", " " >>),
                              TextNode(<< "b" >>) >>) >>,
   style |-> PristineAll]
FramePages == ScenePages \cup { HiddenPage, FourWordPage }
InitFrame == TrackerInit /\ ExtInit /\ \E page \in FramePages : GazeInitOn(page)
SpecFrame == InitFrame /\ [][FrameNext]_vars

\* the renderer and the colorizer together, on pages of one or two words, one
\* of them a colorizer word that is not displayed
ColorPages ==
  { OneBlockPage(FALSE, << TextNode(<< "a", " ", "b" >>) >>),
    OneBlockPage(FALSE, << TextNode(<< "a" >>) >>),
    OneBlockPage(TRUE, << SpanNode("wit-colored", 0, << "a" >>) >>),
    HiddenPage }
InitColor == TrackerInit /\ ExtInit /\ \E page \in ColorPages : GazeInitOn(page)
SpecColor == InitColor /\ [][ColorNext]_vars

\* two colorizer words, the second one in any kind of text colour
ContrastPages ==
  { [ColoredPage EXCEPT !.style[2].color = c] : c \in { NoColor, Dark, Mid, Light, WideGamut } }

\* frames on the plain page and on the coloured pages under any intensity
InitIntensity ==
  TrackerInit /\ ExtInit /\ \E page \in { PlainPage } \cup ContrastPages : GazeInitOn(page)
SpecIntensity == InitIntensity /\ [][IntensityNext]_vars

\* frames on a page that holds a span.wit-colored without a style object
\* (elements 1 and 2 lie in the focus zone of the first samples, in cache order)
ForeignPages ==
  { [ColoredPage EXCEPT !.style[e] = NoInlineStyle] : e \in { 1, 2 } }
InitForeign == TrackerInit /\ ExtInit /\ \E page \in ForeignPages : GazeInitOn(page)
SpecForeign == InitForeign /\ [][FrameNext]_vars

\* Director Mode on a page
InitDirector == TrackerInit /\ ExtInit /\ \E page \in ScenePages : GazeInitOn(page)
SpecDirector == InitDirector /\ [][DirectorNext]_vars

\* the cursor tracker
InitTracker == TrackerInit /\ ExtInit /\ GazeInitOn(PlainPage)
SpecTracker == InitTracker /\ [][TrackerNext]_vars

\* ------------------------------------------------------------------------
\* Properties of the renderer's scheduling and lifecycle (checked on Spec)
\* ------------------------------------------------------------------------
\* C1: coalescing.  At no time is more than one frame callback pending; an
\* accepted updateGaze leaves exactly the callback it requested, carrying its
\* own coordinates; and when N >= 1 samples were accepted since the previous
\* repaint while the renderer is active, the next repaint executes exactly one
\* applyFrame pass, for the last of the N samples.
C1_Coalescing ==
  [][ /\ Len(rafQueue') <= 1
      /\ (gOp' = "updateGaze" /\ isActive) =>
            (rafQueue' = << [id |-> animFrame', p |-> lastSample'] >> /\ samples' >= 1)
      /\ (gOp' = "repaint" /\ isActive /\ samples >= 1) =>
            (passes' = 1 /\ framePoint' = lastSample /\ dimOverlay'.pos = lastSample) ]_vars

\* reached: a repaint that found two or more samples accepted since the one
\* before it, and ran one pass
C1_Witness ==
  /\ gOp = "repaint" /\ isActive /\ consumed >= 2 /\ passes = 1 /\ framePoint \in Points

\* C2: restore completeness.  Right after stopGazeDisplay every element of the
\* page has the inline background and box-shadow it had before the renderer
\* first touched it, whatever those values were.
C2_RestoreCompleteness ==
  gOp = "stopGazeDisplay" =>
    \A e \in DocEls(doc) :
      /\ elStyle[e].bg = style0[e].bg
      /\ elStyle[e].shadow = style0[e].shadow

C7_IdleInvariant ==
  ~isActive =>
    /\ rafQueue = << >>
    /\ animFrame = 0
    /\ highlightedWords = {}
    /\ primaryWord = 0
    /\ \A e \in Elems :
         /\ elStyle[e].shadow = NoBg
         /\ elStyle[e].bg \in { NoBg, style0[e].bg }
    /\ ~dimOverlay.exists
    /\ passes = 0
    /\ samples = 0

\* reached: a sample delivered to an idle renderer that had painted frames
\* before it was stopped
C7_Witness ==
  /\ ~isActive /\ gOp = "updateGaze" /\ lastBranch # "none" /\ focusDot.pos \in Points

\* ------------------------------------------------------------------------
\* Properties of one frame (checked on SpecFrame)
\* ------------------------------------------------------------------------
\* indices of the cache entries within focusRadius of the latest frame's sample
FocusIdx ==
  { i \in 1..Len(wordCache) :
      Dist2(wordCache[i], framePoint) <= FocusR(intensityMult) * FocusR(intensityMult) }

\* C3: single primary.  After a frame with at least one cached word within
\* focusRadius of the sample, the primary word is the element of the first
\* cache entry of minimum distance among those words and it is the only
\* element carrying the primary underline; after a frame with no word within
\* focusRadius there is no primary and no element carries the underline.
C3_SinglePrimary ==
  gOp = "applyFrame" =>
    IF FocusIdx = {}
      THEN /\ primaryWord = 0
           /\ \A e \in Elems : elStyle[e].shadow = NoBg
      ELSE \E m \in FocusIdx :
             /\ \A j \in FocusIdx :
                  /\ Dist2(wordCache[m], framePoint) <= Dist2(wordCache[j], framePoint)
                  /\ (Dist2(wordCache[j], framePoint) = Dist2(wordCache[m], framePoint)
                        => m <= j)
             /\ primaryWord = wordCache[m].el
             /\ { e \in Elems : elStyle[e].shadow # NoBg } = { primaryWord }

\* reached: a frame in which two different words are at the same, minimum
\* distance from the sample and the earlier one in the cache is the primary
C3_Witness ==
  /\ gOp = "applyFrame"
  /\ \E i \in FocusIdx, j \in FocusIdx :
       /\ i < j
       /\ wordCache[i].el # wordCache[j].el
       /\ Dist2(wordCache[i], framePoint) = Dist2(wordCache[j], framePoint)
       /\ \A k \in FocusIdx :
            Dist2(wordCache[i], framePoint) <= Dist2(wordCache[k], framePoint)
       /\ primaryWord = wordCache[i].el

\* C4: zone ordering.  After a frame every cache entry is in exactly one of
\* the focus list (distance <= focusRadius), the transition list (focusRadius
\* < distance <= transitionRadius) or neither (distance > transitionRadius);
\* the highlighted elements are those of the two lists; and an element whose
\* cache entries are all farther than transitionRadius carries no box-shadow
\* and no background other than the one the page gave it.
C4_ZoneOrdering ==
  gOp = "applyFrame" =>
    LET th == toHighlight(wordCache, framePoint, intensityMult)
        tt == toTransition(wordCache, framePoint, intensityMult)
        F2 == FocusR(intensityMult) * FocusR(intensityMult)
        R2 == TransR(intensityMult) * TransR(intensityMult)
        far == { i \in 1..Len(wordCache) : Dist2(wordCache[i], framePoint) > R2 }
    IN /\ \A i \in 1..Len(th) : Dist2(th[i], framePoint) <= F2
       /\ \A j \in 1..Len(tt) :
            Dist2(tt[j], framePoint) > F2 /\ Dist2(tt[j], framePoint) <= R2
       /\ \A i \in 1..Len(th), j \in 1..Len(tt) :
            Dist2(th[i], framePoint) <= Dist2(tt[j], framePoint)
       /\ Len(th) + Len(tt) + Cardinality(far) = Len(wordCache)
       /\ highlightedWords = { th[i].el : i \in 1..Len(th) } \cup { tt[j].el : j \in 1..Len(tt) }
       /\ \A e \in Elems :
            (\A i \in 1..Len(wordCache) : wordCache[i].el = e => i \in far) =>
               /\ elStyle[e].shadow = NoBg
               /\ elStyle[e].bg \in { NoBg, style0[e].bg }

\* reached: a frame with a word in each of the three zones, the transition
\* word carrying a faded highlight
C4_Witness ==
  /\ gOp = "applyFrame"
  /\ \E i \in 1..Len(wordCache), j \in 1..Len(wordCache), k \in 1..Len(wordCache) :
       /\ Zone(wordCache[i], framePoint, intensityMult) = "focus"
       /\ Zone(wordCache[j], framePoint, intensityMult) = "transition"
       /\ Zone(wordCache[k], framePoint, intensityMult) = "none"
       /\ elStyle[wordCache[j].el].bg # NoBg
       /\ elStyle[wordCache[k].el].bg = NoBg

\* ------------------------------------------------------------------------
\* Properties of word discovery and teardown (checked on SpecWrap)
\* ------------------------------------------------------------------------
\* the cache entries of the page's visible words: one per wit-word span
\* whose rectangle passes the filter
VisibleWords == RegionsOf(doc, scrollY, querySelectorAll(doc, "wit-word"), TRUE)

\* C5: cache rebuild correctness.  With no pre-colored element on the page,
\* right after a rebuildWordCache the cache holds exactly one region per
\* visible non-zero-area word, and running rebuildWordCache once more on the
\* unchanged page yields the same regions.
C5_RebuildExactlyK ==
  (gOp = "rebuildWordCache" /\ lastBranch \in { "wrap", "existing" }) =>
    /\ Len(wordCache) = Len(VisibleWords)
    /\ rebuildWordCache(doc, scrollY, Used(FrameState)).wordCache = wordCache

\* C10: teardown round trip.  Right after destroyGazeDisplay no wit-word
\* element is left in the document and every block holds the nodes it held
\* before the extension touched the page, up to merging adjacent text nodes;
\* in particular its text content is the original one.
C10_TeardownRoundTrip ==
  gOp = "destroyGazeDisplay" =>
    /\ querySelectorAll(doc, "wit-word") = << >>
    /\ Len(doc) = Len(doc0)
    /\ \A p \in 1..Len(doc) :
         /\ doc[p].kids = Normalize(doc0[p].kids)
         /\ TextContent(doc[p].kids) = TextContent(doc0[p].kids)

\* reached: destroyGazeDisplay after a wrap pass that split a displayed text
\* node of several words into spans
C10_Witness ==
  /\ gOp = "destroyGazeDisplay" /\ lastBranch = "wrap"
  /\ \E p \in 1..Len(doc0) :
       /\ ~doc0[p].hidden
       /\ \E i \in 1..Len(doc0[p].kids) :
            /\ doc0[p].kids[i].k = "text"
            /\ Len(Runs(doc0[p].kids[i].t)) >= 3
       /\ doc[p].kids = Normalize(doc0[p].kids)

\* ------------------------------------------------------------------------
\* Properties of the cursor tracker (checked on SpecTracker)
\* ------------------------------------------------------------------------
\* C8: after stopTracking returns no pointer-move event invokes the gaze
\* callback until startTracking is called again, and a startTracking after a
\* stopTracking resumes emission: while the source is stopped a mousemove step
\* causes no invocation, and while it is started (with a callback installed)
\* a mousemove step invokes the callback, with the event's coordinates.
C8_StopSilencesAndRestartResumes ==
  [][ tOp' = "mousemove" =>
        /\ (~isTracking => (lastCalls' = 0 /\ emitted' = emitted /\ lastGaze' = lastGaze))
        /\ ((isTracking /\ gazeCallback = "cb") =>
              (lastCalls' >= 1 /\ emitted' > emitted /\ lastGaze' \in Points)) ]_vars

\* reached: the source was started, stopped and started again, and an event
\* was then delivered to the callback
C8_Witness ==
  /\ tOp = "mousemove" /\ isTracking /\ starts = 2 /\ lastCalls = 1 /\ emitted >= 2

\* C9: for any sequence of startTracking and stopTracking calls at most one
\* mousemove listener is registered at any time, so each pointer-move event
\* invokes the gaze callback at most once.
C9_AtMostOneListener ==
  /\ Cardinality(mouseListeners) <= 1
  /\ lastCalls <= 1
  /\ (isTracking <=> mouseMoveHandler # 0)
  /\ mouseListeners = (IF isTracking THEN {mouseMoveHandler} ELSE {})

\* reached: startTracking called twice in a row, one listener registered
C9_Witness ==
  /\ tOp = "startTracking" /\ tAgain /\ isTracking /\ Cardinality(mouseListeners) = 1

\* ------------------------------------------------------------------------
\* Properties of the wrap pass and of discovery (checked on SpecWrap)
\* ------------------------------------------------------------------------
\* the nodes a wrap pass at scroll offset sy leaves in block p of page d,
\* read off the runs of its text nodes: kind, class and text of each
C12_Shape(n) == [k |-> n.k, cls |-> n.cls, t |-> n.t]
C12_Pieces(t) ==
  [j \in 1..Len(Runs(t)) |->
     IF IsSpace(Runs(t)[j][1])
       THEN [k |-> "text", cls |-> "", t |-> Runs(t)[j]]
       ELSE [k |-> "span", cls |-> "wit-word", t |-> Runs(t)[j]]]
C12_Expected(d, sy, p) ==
  Flatten([i \in 1..Len(d[p].kids) |->
             IF BlockAccepted(d, sy, p) /\ d[p].kids[i].k = "text" /\ ~Blank(d[p].kids[i].t)
               THEN C12_Pieces(d[p].kids[i].t)
               ELSE << C12_Shape(d[p].kids[i]) >>])
\* C12: the text of the page is never changed.  Every step leaves the text
\* content of every block as it was; a wrap pass replaces each accepted text
\* node that holds a word by the pieces of its split into maximal runs, in
\* order, a new span.wit-word of its own for each run of non-whitespace and a
\* text node for each run of whitespace, and leaves every other node
\* (whitespace-only and empty text nodes among them) in place.
C12_TextNeverMutated ==
  [][/\ Len(doc') = Len(doc)
     /\ \A p \in 1..Len(doc) : TextContent(doc'[p].kids) = TextContent(doc[p].kids)
     /\ (gOp' = "rebuildWordCache" /\ lastBranch' = "wrap") =>
          /\ \A p \in 1..Len(doc) :
               [i \in 1..Len(doc'[p].kids) |-> C12_Shape(doc'[p].kids[i])]
                 = C12_Expected(doc, scrollY, p)
          /\ Len(querySelectorAll(doc', "wit-word"))
               = Cardinality({ querySelectorAll(doc', "wit-word")[i].el :
                                 i \in 1..Len(querySelectorAll(doc', "wit-word")) })
    ]_vars

C12_Witness ==
  /\ gOp = "rebuildWordCache"
  /\ lastBranch = "wrap"
  /\ doc # doc0
  /\ \E p \in 1..Len(doc) :
       /\ TextContent(doc[p].kids) = TextContent(doc0[p].kids)
       /\ \E i \in 1..(Len(doc[p].kids) - 2) :
            /\ doc[p].kids[i].k = "span" /\ doc[p].kids[i].cls = "wit-word"
            /\ doc[p].kids[i + 1].k = "text" /\ doc[p].kids[i + 1].t # << >>
            /\ doc[p].kids[i + 2].k = "span" /\ doc[p].kids[i + 2].cls = "wit-word"
       /\ \E i \in 1..Len(doc[p].kids) :
            doc[p].kids[i].k = "text" /\ doc[p].kids[i] \in Range(doc0[p].kids)

\* the span.wit-colored elements that are in the document
ColoredEls(d) ==
  { querySelectorAll(d, "wit-colored")[i].el :
      i \in 1..Len(querySelectorAll(d, "wit-colored")) }

\* the elements of the regions in a cache, and the spans of a class whose
\* rectangle passes the filter of the cache
CacheEls(cache) == { cache[i].el : i \in 1..Len(cache) }
VisibleEls(d, sy, cls) == CacheEls(RegionsOf(d, sy, querySelectorAll(d, cls), TRUE))

C14_LazyInvalidation ==
  [][/\ gOp' \in { "scroll", "resize", "startGazeDisplay" } =>
          /\ wordCache' = wordCache
          /\ doc' = doc
          /\ (scrollHandler \/ gOp' = "startGazeDisplay") => ~cacheValid'
     /\ (gOp' = "repaint" /\ passes' > 0) =>
          /\ cacheValid'
          /\ cacheValid => (wordCache' = wordCache /\ doc' = doc)
          /\ ~cacheValid =>
               \E cls \in { IF ColoredEls(doc') # {} THEN "wit-colored" ELSE "wit-word" } :
                 \E all \in { querySelectorAll(doc', cls) } :
                   /\ CacheEls(wordCache') = VisibleEls(doc', scrollY, cls)
                   /\ \A i \in 1..Len(wordCache') :
                        \E j \in 1..Len(all) :
                          wordCache'[i] = Region(all[j].el,
                                                 getBoundingClientRect(doc', scrollY,
                                                                       all[j].p, all[j].k))
          /\ highlightedWords' \subseteq CacheEls(wordCache')]_vars

\* a frame has run after a scroll event and works on regions measured at the
\* new scroll offset
C14_Witness ==
  /\ gOp = "repaint"
  /\ passes > 0
  /\ scrollY = 350
  /\ scrollHandler
  /\ cacheValid
  /\ \E i \in 1..Len(wordCache) : wordCache[i].cy = 400 - 350
  /\ highlightedWords # {}

C20_EmptyDiscovery ==
  [][(gOp' = "repaint" /\ passes' > 0) =>
       /\ wordCache' = << >> =>
            /\ cacheValid'
            /\ highlightedWords' = {}
            /\ primaryWord' = 0
            /\ \A e \in Elems : elStyle'[e].shadow = NoBg
            /\ focusDot.exists => (focusDot'.exists /\ focusDot'.pos = framePoint')
            /\ dimOverlay'.exists
            /\ dimOverlay'.pos = framePoint'
       /\ (cacheValid /\ wordCache = << >>) =>
            (wordCache' = << >> /\ doc' = doc)]_vars

\* a frame has run on a page none of whose words is in the viewport band:
\* indicator and overlay are at the sample, the cache is empty and valid
C20_Witness ==
  /\ gOp = "repaint"
  /\ passes > 0
  /\ wordCache = << >>
  /\ cacheValid
  /\ lastBranch # "none"
  /\ focusDot.exists
  /\ focusDot.pos = framePoint
  /\ dimOverlay.exists
  /\ dimOverlay.pos = framePoint
  /\ highlightedWords = {}

\* ------------------------------------------------------------------------
\* The worked scenarios (checked on SpecFrame)
\* ------------------------------------------------------------------------
\* the layout of the scenarios: the cache holds regions centred at (100,100),
\* (150,100) and (400,400) and no others, and the page has no span.wit-colored
C16_Layout ==
  /\ { << wordCache[i].cx, wordCache[i].cy >> : i \in 1..Len(wordCache) }
       = { << 100, 100 >>, << 150, 100 >>, << 400, 400 >> }
  /\ ColoredEls(doc) = {}
\* the element of the region centred at c
C16_ElAt(c) ==
  CHOOSE e \in Elems :
    \E i \in 1..Len(wordCache) :
      wordCache[i].el = e /\ << wordCache[i].cx, wordCache[i].cy >> = c

\* C16: Scenario A.  After a frame for the sample (120,100) at intensity
\* medium on the layout of the scenarios, regions 1 and 2 are highlighted as
\* focus words, region 1 is the primary word and carries the strong highlight
\* and the underline, and region 3 is not highlighted and has no renderer
\* style.
C16_ScenarioA ==
  (gOp = "applyFrame" /\ framePoint = << 120, 100 >> /\ intensityMult = 10 /\ C16_Layout) =>
    /\ highlightedWords = { C16_ElAt(<< 100, 100 >>), C16_ElAt(<< 150, 100 >>) }
    /\ primaryWord = C16_ElAt(<< 100, 100 >>)
    /\ elStyle[C16_ElAt(<< 100, 100 >>)].bg = HIGHLIGHT_BG_STRONG
    /\ elStyle[C16_ElAt(<< 100, 100 >>)].shadow = UNDERLINE_COLOR
    /\ elStyle[C16_ElAt(<< 150, 100 >>)].bg = HIGHLIGHT_BG
    /\ elStyle[C16_ElAt(<< 150, 100 >>)].shadow = NoBg
    /\ elStyle[C16_ElAt(<< 400, 400 >>)] = Pristine

C16_Witness ==
  /\ gOp = "applyFrame"
  /\ framePoint = << 120, 100 >>
  /\ intensityMult = 10
  /\ C16_Layout
  /\ Cardinality(highlightedWords) = 2
  /\ primaryWord = C16_ElAt(<< 100, 100 >>)

\* C17 (as stated): Scenario B.  After a frame for the sample (120,100) at
\* intensity low on the layout of the scenarios, region 1 is the only focus
\* word and the primary word, and region 2 carries the faded highlight of the
\* transition zone.
C17_ScenarioBAsStated ==
  (gOp = "applyFrame" /\ framePoint = << 120, 100 >> /\ intensityMult = 5 /\ C16_Layout) =>
    /\ primaryWord = C16_ElAt(<< 100, 100 >>)
    /\ elStyle[C16_ElAt(<< 100, 100 >>)].bg = HIGHLIGHT_BG_STRONG
    /\ C16_ElAt(<< 150, 100 >>) \in highlightedWords
    /\ elStyle[C16_ElAt(<< 150, 100 >>)].bg.rgb = HIGHLIGHT_BG.rgb
    /\ elStyle[C16_ElAt(<< 150, 100 >>)].bg.a < HIGHLIGHT_BG.a

\* C17 (amended): Scenario B.  After a frame for the sample (120,100) at
\* intensity low (focus radius 45, transition radius 90) on the layout of the
\* scenarios, regions 1 and 2 (distances 20 and 30) are both highlighted as
\* focus words, region 1 is the primary word, no region carries a transition
\* highlight and region 3 has no renderer style.
C17_ScenarioB ==
  (gOp = "applyFrame" /\ framePoint = << 120, 100 >> /\ intensityMult = 5 /\ C16_Layout) =>
    /\ highlightedWords = { C16_ElAt(<< 100, 100 >>), C16_ElAt(<< 150, 100 >>) }
    /\ primaryWord = C16_ElAt(<< 100, 100 >>)
    /\ elStyle[C16_ElAt(<< 100, 100 >>)].bg = HIGHLIGHT_BG_STRONG
    /\ elStyle[C16_ElAt(<< 100, 100 >>)].shadow = UNDERLINE_COLOR
    /\ elStyle[C16_ElAt(<< 150, 100 >>)].bg = HIGHLIGHT_BG
    /\ elStyle[C16_ElAt(<< 150, 100 >>)].shadow = NoBg
    /\ elStyle[C16_ElAt(<< 400, 400 >>)] = Pristine

C17_Witness ==
  /\ gOp = "applyFrame"
  /\ framePoint = << 120, 100 >>
  /\ intensityMult = 5
  /\ C16_Layout
  /\ elStyle[C16_ElAt(<< 150, 100 >>)].bg = HIGHLIGHT_BG
  /\ primaryWord = C16_ElAt(<< 100, 100 >>)

\* ------------------------------------------------------------------------
\* Properties of the intensity setting (checked on SpecIntensity)
\* ------------------------------------------------------------------------
\* C18: intensity mapping.  The multiplier is always one of 0.5, 1.0 and 1.5
\* (whatever string setIntensity was given), the transition radius is greater
\* than the focus radius and the focus radius greater than 0, and a frame
\* paints the overlay with the radius 180 x multiplier.
C18_IntensityMapping ==
  /\ intensityMult \in { 5, 10, 15 }
  /\ TransR(intensityMult) > FocusR(intensityMult)
  /\ FocusR(intensityMult) > 0
  /\ gOp = "applyFrame" => dimOverlay.radius = 18 * intensityMult

C15_ColoredPreferred ==
  (gOp = "applyFrame" /\ ColoredEls(doc) # {}) =>
    /\ CacheEls(wordCache) \subseteq ColoredEls(doc)
    /\ highlightedWords \subseteq ColoredEls(doc)

\* ------------------------------------------------------------------------
\* Failures inside a frame (SpecForeign, SpecColor)
\* ------------------------------------------------------------------------
\* elements of the words a frame at the latest sample classifies into a zone
C21_ZoneEls ==
  { w.el : w \in Range(toHighlight(wordCache, framePoint, intensityMult))
                   \cup Range(toTransition(wordCache, framePoint, intensityMult)) }

\* C21: per-element failure isolation: when the style mutation of one element
\* fails during a frame, that element alone is skipped: every other focus and
\* transition element is styled and recorded, and the overlay is repainted
\* for the sample of the frame.
C21_FailureIsolation ==
  gOp = "applyFrame" =>
    /\ \A e \in C21_ZoneEls :
         elStyle[e] # NoInlineStyle => e \in highlightedWords /\ elStyle[e].bg # NoBg
    /\ dimOverlay.exists /\ dimOverlay.pos = framePoint


\* C22: a cached element that has been detached from the document between the
\* cache build and a frame is skipped by that frame: it receives no style
\* mutation and is not recorded as highlighted.
C22_DetachedSkipped ==
  gOp = "applyFrame" =>
    \A e \in CacheEls(wordCache) \ DocEls(doc) :
      /\ e \notin highlightedWords
      /\ elStyle[e].bg = NoBg /\ elStyle[e].shadow = NoBg

\* ------------------------------------------------------------------------
\* Director Mode and its status signal (SpecDirector)
\* ------------------------------------------------------------------------
\* C23: a TOGGLE_DIRECTOR_MODE message with enabled = true posts one
\* TRACKING_STATUS with active = true, one with enabled = false posts one with
\* active = false, nothing else posts a status, and after any sequence of
\* toggles the latest status posted equals the renderer's active flag.
C23_StatusSignal ==
  [][ /\ IF gOp' \in { "startDirectorMode", "stopDirectorMode" }
           THEN panelInbox' = Append(panelInbox, TrackingStatus(directorSettings'.enabled))
           ELSE panelInbox' = panelInbox
      /\ panelInbox' # << >> => panelInbox'[Len(panelInbox')].active = isActive'
      /\ panelInbox' = << >> => ~isActive' ]_vars

\* Director Mode switched on twice and then off, a word having been
\* highlighted in between
C23_Witness ==
  /\ gOp = "stopDirectorMode"
  /\ Len(panelInbox) = 3
  /\ panelInbox[1].active /\ panelInbox[2].active /\ ~panelInbox[3].active
  /\ ~isActive
  /\ cleared > 0

\* ------------------------------------------------------------------------
\* Highlight colours (SpecIntensity)
\* ------------------------------------------------------------------------
\* the highlight the contrast rule prescribes for a text colour: the fixed
\* fallback without a parsed colour, else by the luminance L of the colour
C24_Prescribed(color, strong) ==
  IF color \notin { Dark, Mid, Light }
    THEN IF strong THEN HIGHLIGHT_BG_STRONG ELSE HIGHLIGHT_BG
  ELSE LET L == luminance(color)
           normal == IF L > 400 THEN [rgb |-> << 30, 40, 70 >>, a |-> 180]
                     ELSE IF L > 150 THEN [rgb |-> << 255, 249, 196 >>, a |-> 280]
                     ELSE [rgb |-> << 255, 240, 140 >>, a |-> 330]
       IN IF strong THEN [normal EXCEPT !.a = @ + 100] ELSE normal

\* C24: contrast rule: a dark highlight for a text colour of luminance above
\* 0.4, a warm light one between 0.15 and 0.4, a brighter warm one up to 0.15,
\* the strong variant exceeding the normal one by the same alpha increment in
\* all three branches; without a colour, or with one that cannot be parsed,
\* the fixed fallback highlight.  Stated of every word a frame put in focus.
C24_ContrastRule ==
  gOp = "applyFrame" =>
    \A i \in 1..Len(wordCache) :
      Zone(wordCache[i], framePoint, intensityMult) = "focus" =>
        elStyle[wordCache[i].el].bg
          = C24_Prescribed(elStyle[wordCache[i].el].color, wordCache[i].el = primaryWord)

\* every kind of text colour has been highlighted as the primary word and as
\* a plain focus word
C24_Seen(color, strong) ==
  /\ gOp = "applyFrame"
  /\ \E i \in 1..Len(wordCache) :
       /\ Zone(wordCache[i], framePoint, intensityMult) = "focus"
       /\ elStyle[wordCache[i].el].color = color
       /\ (wordCache[i].el = primaryWord) = strong
C24_Witness ==
  /\ C24_Seen(Mid, TRUE)
  /\ elStyle[1].color = Dark /\ elStyle[1].bg = [rgb |-> << 255, 240, 140 >>, a |-> 330]

\* ------------------------------------------------------------------------
\* What the renderer writes on word elements (Spec)
\* ------------------------------------------------------------------------
\* the span.wit-colored elements of a document with their text: [el, t]
C25_ColoredText(d) ==
  UNION { { [el |-> d[p].kids[i].el, t |-> d[p].kids[i].t] :
              i \in { j \in 1..Len(d[p].kids) :
                        d[p].kids[j].k = "span" /\ d[p].kids[j].cls = "wit-colored" } }
            \cup UNION { Range(d[p].kids[i].in) : i \in 1..Len(d[p].kids) } :
          p \in 1..Len(d) }

\* C25: of the inline style of a word element the renderer writes background
\* and box-shadow only: no step of it (frame, stop, destroy or any other)
\* changes the inline text colour of an element, which it only reads, or the
\* text of a pre-colored element.
C25_StyleFootprint ==
  [][ /\ \A e \in Elems :
           elStyle'[e].color # elStyle[e].color => e \notin DocEls(doc) \cap DocEls(doc')
      /\ doc' # doc =>
           \A x \in C25_ColoredText(doc) :
             x.el \in DocEls(doc') => x \in C25_ColoredText(doc') ]_vars

\* a repaint has highlighted a pre-colored element as the primary word, over
\* the background the page had given it
C25_Witness ==
  /\ gOp = "repaint"
  /\ primaryWord = 1
  /\ [el |-> 1, t |-> << "a" >>] \in C25_ColoredText(doc)
  /\ elStyle[1].color = Dark
  /\ elStyle[1].bg = contrastingHighlight(Dark, TRUE).bg
  /\ elStyle[1].bg # style0[1].bg

\* ------------------------------------------------------------------------
\* What the cache holds after a rebuild (SpecColor)
\* ------------------------------------------------------------------------
\* the spans of a document that carry one of the two markers: [el, p, k]
C26_Marked(d) ==
  Range(querySelectorAll(d, "wit-colored")) \cup Range(querySelectorAll(d, "wit-word"))

\* C26: cache composition.  Right after a rebuild of the cache, whichever of
\* the three discovery branches ran, the element of every cached region is a
\* span.wit-colored or span.wit-word element attached to the document whose
\* rectangle has non-zero width and height; and a frame changes the inline
\* background or box-shadow of cached elements only.
C26_CacheComposition ==
  [][ gOp' = "applyFrame" =>
        /\ NeedsRebuild(cacheValid, wordCache) =>
             \A i \in 1..Len(wordCache') :
               \E sp \in C26_Marked(doc') :
                 /\ sp.el = wordCache'[i].el
                 /\ NonEmptyRect(getBoundingClientRect(doc', scrollY', sp.p, sp.k))
        /\ \A e \in Elems :
             (elStyle'[e].bg # elStyle[e].bg \/ elStyle'[e].shadow # elStyle[e].shadow)
               => e \in CacheEls(wordCache) \cup CacheEls(wordCache') ]_vars

\* a frame has rebuilt the cache through the named branch and styled a word
C26_RebuiltBy(branch) ==
  gOp = "applyFrame" /\ lastBranch = branch /\ wordCache # << >> /\ primaryWord # 0
\* the document holds a marked span that has no area, and the cache has just
\* been rebuilt without it
C26_Witness ==
  /\ gOp = "applyFrame" /\ lastBranch = "colored" /\ cacheValid
  /\ wordCache = << >>
  /\ \E sp \in C26_Marked(doc) :
       ~NonEmptyRect(getBoundingClientRect(doc, scrollY, sp.p, sp.k))

\* ------------------------------------------------------------------------
\* The highlighted set after a frame (SpecFrame)
\* ------------------------------------------------------------------------
\* the elements that carry a background the renderer has written
C27_Highlighted ==
  { e \in Elems : elStyle[e].bg # NoBg /\ elStyle[e].bg # style0[e].bg }

\* C27: after every frame the elements that carry a highlight of the renderer
\* are exactly the elements of the frame's focus and transition zones, and
\* exactly the tracked set highlightedWords, so that an element highlighted
\* earlier and now in neither zone is cleared; the primary word, if any, is in
\* the tracked set; and the underline is on the primary word and nowhere else.
C27_HighlightedSet ==
  gOp = "applyFrame" =>
    /\ C27_Highlighted = C21_ZoneEls
    /\ highlightedWords = C21_ZoneEls
    /\ primaryWord # 0 => primaryWord \in highlightedWords
    /\ { e \in Elems : elStyle[e].shadow # NoBg } = { primaryWord } \ { 0 }

\* a frame whose only zone word is the primary word, while a word that an
\* earlier frame had highlighted over the background of the page lies outside
\* both zones and carries nothing
C27_Witness ==
  /\ gOp = "applyFrame"
  /\ primaryWord # 0
  /\ highlightedWords = { primaryWord }
  /\ \E e \in CacheEls(wordCache) \ highlightedWords :
       elStyle[e].bg = NoBg /\ style0[e].bg # NoBg

\* ------------------------------------------------------------------------
\* The order of the steps of a frame (SpecDirector)
\* ------------------------------------------------------------------------
\* C28: the steps of a frame run in a fixed order, each on the result of the
\* one before it: the indicator is moved to the sample; the cache is rebuilt
\* if it is not valid, and the zones are computed from the cache as it is
\* then; the highlights of the frame before are cleared before the new ones
\* are written, so that a word highlighted by both frames stays highlighted;
\* the primary style is written after the focus style, so that the primary
\* word carries the strong background; the overlay is repainted for the same
\* sample.  A frame is one step: the state between two steps of the model
\* holds no partial frame.
C28_StepOrder ==
  [][ (gOp' = "repaint" /\ passes' = 1) =>
        /\ focusDot.exists => focusDot'.pos = framePoint'
        /\ cacheValid'
        /\ NeedsRebuild(cacheValid, wordCache) =>
             wordCache' = rebuildWordCache(doc, scrollY, Used(FrameState)).wordCache
        /\ highlightedWords'
             = { w.el : w \in Range(toHighlight(wordCache', framePoint', intensityMult))
                               \cup Range(toTransition(wordCache', framePoint', intensityMult)) }
        /\ \A e \in highlightedWords \cap highlightedWords' : elStyle'[e].bg # NoBg
        /\ \A e \in highlightedWords \ highlightedWords' : elStyle'[e].bg = NoBg
        /\ primaryWord' # 0 =>
             /\ elStyle'[primaryWord'].bg
                  = contrastingHighlight(elStyle[primaryWord'].color, TRUE).bg
             /\ elStyle'[primaryWord'].shadow # NoBg
        /\ dimOverlay'.exists /\ dimOverlay'.pos = framePoint'
        /\ dimOverlay'.radius = TransR(intensityMult) ]_vars

\* a frame that found the cache invalid, rebuilt it, and highlighted a primary
\* word and a second focus word, with the indicator and the overlay at its sample
C28_Witness ==
  /\ gOp = "repaint" /\ passes = 1
  /\ lastBranch = "wrap" /\ cacheValid
  /\ primaryWord # 0
  /\ Cardinality(highlightedWords) >= 2
  /\ focusDot.exists /\ focusDot.pos = framePoint
  /\ dimOverlay.exists /\ dimOverlay.pos = framePoint

\* ------------------------------------------------------------------------
\* The fade of the transition zone (SpecFrame)
\* ------------------------------------------------------------------------
\* the cache entries the latest frame put in the transition zone
C29_Transition ==
  { i \in 1..Len(wordCache) :
      Zone(wordCache[i], framePoint, intensityMult) = "transition" }
\* alpha of the background an entry carries, and alpha of the normal focus
\* background of its text colour, in thousandths
C29_Alpha(i) == elStyle[wordCache[i].el].bg.a
C29_Base(i) == contrastingHighlight(elStyle[wordCache[i].el].color, FALSE).bg.a

\* C29: transition fade.  A word of the transition zone at distance d gets the
\* normal focus background of its text colour with the alpha
\* baseAlpha * (1 - t), t = (d - focusRadius) / (transitionRadius - focusRadius),
\* to three decimals: it never exceeds the normal focus alpha, does not
\* increase with the distance, and is zero at d = transitionRadius.
C29_TransitionFade ==
  gOp = "applyFrame" =>
    \A i \in C29_Transition :
      \E fR \in { FocusR(intensityMult) } : \E tR \in { TransR(intensityMult) } :
        \E dist \in { ISqrt(Dist2(wordCache[i], framePoint) * 10000) } :
          /\ elStyle[wordCache[i].el].bg.rgb
               = contrastingHighlight(elStyle[wordCache[i].el].color, FALSE).bg.rgb
          \* |alpha - baseAlpha * (1 - t)| <= 0.0005
          /\ 2 * C29_Alpha(i) * (tR - fR) * 100
               <= 2 * C29_Base(i) * (tR * 100 - dist) + (tR - fR) * 100
          /\ 2 * C29_Alpha(i) * (tR - fR) * 100
               >= 2 * C29_Base(i) * (tR * 100 - dist) - (tR - fR) * 100
          /\ 0 <= C29_Alpha(i) /\ C29_Alpha(i) <= C29_Base(i)
          /\ dist = tR * 100 => C29_Alpha(i) = 0
          /\ \A j \in C29_Transition :
               (C29_Base(j) = C29_Base(i)
                  /\ Dist2(wordCache[i], framePoint) <= Dist2(wordCache[j], framePoint))
                 => C29_Alpha(i) >= C29_Alpha(j)

\* a word exactly at the transition radius, faded to zero
C29_ZeroAtEdge ==
  /\ gOp = "applyFrame"
  /\ \E i \in C29_Transition :
       /\ Dist2(wordCache[i], framePoint) = TransR(intensityMult) * TransR(intensityMult)
       /\ C29_Alpha(i) = 0
\* two words of the transition zone, the farther one with the smaller alpha,
\* both below the normal focus alpha
C29_Witness ==
  /\ gOp = "applyFrame"
  /\ \E i, j \in C29_Transition :
       /\ Dist2(wordCache[i], framePoint) < Dist2(wordCache[j], framePoint)
       /\ C29_Base(i) = C29_Base(j)
       /\ C29_Alpha(i) > C29_Alpha(j) /\ C29_Alpha(j) > 0
       /\ C29_Alpha(i) < C29_Base(i)

\* ------------------------------------------------------------------------
\* Teardown of the renderer (Spec)
\* ------------------------------------------------------------------------
\* C30: teardown completeness.  Right after destroyGazeDisplay, whatever
\* sequence of init, start, frames and invalidations came before it on one
\* init: the overlay and the indicator are out of the document, the scroll and
\* resize listeners and the resize observer are detached, no frame is pending,
\* and the active flag, the cache, the validity flag and the highlighted set
\* have their initial values, as have the references to the elements and
\* handlers of the module.
C30_TeardownComplete ==
  gOp = "destroyGazeDisplay" =>
    /\ ~dimOverlay.exists /\ dimOverlay = NoOverlay
    /\ bodyDots = 0 /\ focusDot = NoDot
    /\ headStyles = 0 /\ cursorStyleEl = NoStyleEl
    /\ scrollListeners = 0 /\ ~scrollHandler
    /\ observers = 0 /\ ~resizeObserver
    /\ rafQueue = << >> /\ animFrame = 0
    /\ ~isActive
    /\ wordCache = << >>
    /\ ~cacheValid
    /\ highlightedWords = {} /\ primaryWord = 0

\* destroyGazeDisplay on a renderer that had painted frames and still had
\* words highlighted
C30_Witness ==
  /\ gOp = "destroyGazeDisplay"
  /\ lastBranch # "none"
  /\ cleared > 0
  /\ animFrame = 0 /\ rafQueue = << >>
  /\ bodyDots = 0 /\ scrollListeners = 0

\* ------------------------------------------------------------------------
\* Uniqueness of cache entries (SpecWrap)
\* ------------------------------------------------------------------------
\* C31: the word cache never holds the same element twice: right after a
\* rebuildWordCache, through any of the three discovery branches, every
\* element is the element of at most one cache entry.
C31_NoDuplicates ==
  gOp = "rebuildWordCache" =>
    \A i, j \in 1..Len(wordCache) : wordCache[i].el = wordCache[j].el => i = j

\* ------------------------------------------------------------------------
\* Nodes injected by Director Mode (SpecDirector)
\* ------------------------------------------------------------------------
\* C32: no injected node outlives Director Mode: whatever TOGGLE_DIRECTOR_MODE
\* messages arrive, consecutive enable messages included, the document holds
\* at most one focus indicator and at most one cursor-hiding style element,
\* and right after a message with enabled = FALSE it holds no focus
\* indicator, no cursor-hiding style element, no overlay and no wit-word
\* element.
C32_NoInjectedLeft ==
  /\ bodyDots <= 1
  /\ headStyles <= 1
  /\ gOp = "stopDirectorMode" =>
       /\ bodyDots = 0
       /\ headStyles = 0
       /\ ~dimOverlay.exists
       /\ querySelectorAll(doc, "wit-word") = << >>

\* ------------------------------------------------------------------------
\* Colour coding against the awaited backend (SpecColorizer)
\* ------------------------------------------------------------------------
\* C33: switching colour coding off removes all colorization: once a
\* TOGGLE_COLOR_CODING with enabled = false was the last toggle handled and no
\* colorizeDocument call is in flight any more, the document holds no
\* wrapper and the text nodes the page was loaded with are back, however the
\* toggle interleaves with the answers of the backend.
C33_OffRemovesAll ==
  (offHandled /\ running = << >>) =>
    \A p \in 1..Len(body) :
      /\ body[p].k = "text"
      /\ body00[p].k = "text" => body[p] = TextSlot

\* C34: at most one colorization pass is in flight; a colorizeDocument call
\* made while one is in flight leaves the document, the records and the pass
\* alone; and the guard is held exactly while a pass is in flight, so every
\* way out of a pass releases it.
C34_SinglePass ==
  /\ [](Len(running) <= 1 /\ (isColorizing <=> running # << >>))
  /\ [][(isColorizing /\ cOp' \in { "toggleOn", "recolorizeTimeout" })
          => (body' = body /\ coloredNodes' = coloredNodes /\ running' = running
                /\ isColorizing')]_vars

C34_Witness ==
  cOp = "toggleOn" /\ isColorizing /\ ~isProcessing /\ Len(running) = 1

\* C35: recolorize is debounced: the debounce calls colorizeDocument exactly
\* once per burst, RECOLORIZE_MS after the last recolorize call and with that
\* call's arguments; before that instant it has made no call since the last
\* recolorize, after it exactly one.
C35_Debounced ==
  /\ [](sinceLast < RECOLORIZE_MS => firedSince = 0)
  /\ [](sinceLast > RECOLORIZE_MS => firedSince = 1)
  /\ [][firedSince' = firedSince + 1
          => (sinceLast = RECOLORIZE_MS /\ lastCall' = lastArgs)]_vars

\* a burst of two calls less than RECOLORIZE_MS apart, the second one with
\* other arguments, has just been answered by its single call
C35_Witness ==
  /\ cOp = "recolorizeTimeout" /\ firedSince = 1 /\ lastCall = "warm"
  /\ Len(timeouts) = 2
  /\ timeouts[2].left = PROCESSING_DONE_MS - RECOLORIZE_MS
  /\ timeouts[2].left - timeouts[1].left \in { TickMs, 2 * TickMs }

C37_RemoveUndoes ==
  (cOp = "toggleOff" \/ restored > 0) =>
    /\ coloredNodes = << >>
    /\ \A p \in 1..Len(body) :
         /\ body[p].k = "text"
         /\ body00[p].k = "text" => body[p] = TextSlot

C37_Witness ==
  cOp = "toggleOff" /\ restored > 0 /\ running = << >> /\ ~isColorizing

\* ------------------------------------------------------------------------
\* The gaze socket (SpecSocket) and the webcam tracker (SpecWebcam)
\* ------------------------------------------------------------------------
\* C38: reconnect discipline of GazeWebSocket: however connect, disconnect
\* and close events interleave, at most one socket and at most one reconnect
\* timer are live; a close that was not asked for sets a timer of
\* RECONNECT_MS whose callback creates a socket; and while the instance is
\* closed on purpose only connect() creates a socket.
C38_ReconnectDiscipline ==
  /\ [](Cardinality(Live(sockets)) <= 1 /\ Len(reconnectTimers) <= 1)
  /\ [][(wsOp' \in { "lost", "closed" } /\ ~isIntentionallyClosed)
          => \E i \in 1..Len(reconnectTimers') :
               reconnectTimers'[i] = [left |-> RECONNECT_MS, handle |-> TRUE]]_vars
  /\ [][(wsOp' = "reconnect" /\ ~isIntentionallyClosed) => created' = created + 1]_vars
  /\ [][(isIntentionallyClosed /\ created' > created) => wsOp' = "connect"]_vars

\* C39: STOP is effective: however START and STOP interleave with the
\* settling of webgazer.begin(), a GAZE message is posted only while a START
\* was handled with no STOP since, and never more than one emission interval
\* runs.
C39_StopEffective ==
  /\ camOp = "GAZE" => wantGaze
  /\ intervals <= 1

====
